---- MODULE Spec2Model ----
(***************************************************************************)
(* Atlas Copco e-mail signature generator: the command-line front-end      *)
(* (src/acsignature.py) and the Tk desktop front-end                       *)
(* (src/signature_generator.py).                                           *)
(*                                                                         *)
(* A Python str is modelled as a sequence of atoms.  An atom is a string:  *)
(* a one-character string is one character of the text; a longer string is *)
(* a run of literal template text that no scanning function of the program *)
(* looks into (it holds no line break and neither starts nor ends a line   *)
(* with blanks that matter).  User-supplied text is always one atom per    *)
(* character.                                                              *)
(***************************************************************************)
EXTENDS Integers, Sequences, FiniteSets, TLC

VARIABLES
    number,     \* argument of the mobile validity predicate
    variant,    \* a second argument, derived from number (separators or a 0 inserted)
    cli_ok,     \* <<>> or the results of is_valid_mobile_number on <<number, variant>>
    gui_ok,     \* <<>> or the results of is_valid_mobile on <<number, variant>>
    value,      \* argument of the telephone sanitizer
    tel_cli,    \* <<>> or <<sanitize_tel(value)>>, command-line copy
    tel_gui,    \* <<>> or <<sanitize_tel(value)>>, desktop copy
    args,       \* command line: the record of the five positional arguments
    cli_pc,     \* command line: "start" before main, "exit" after it
    rc,         \* command line: <<>> or <<the value main returned>>
    stdout,     \* command line: text printed to standard output
    stderr,     \* command line: text printed to standard error
    cli_archive,\* command line: <<>> or <<the archive written>>, with path and entries
    entries,    \* desktop: the text of the five entry fields
    payload,    \* desktop: <<>> (None) or <<the SignaturePayload>>
    preview,    \* desktop: the HTML the preview shows
    messagebox, \* desktop: <<>> or <<the dialog shown last>>
    gui_archive \* desktop: <<>> or <<the archive written last>>

mobile_vars == <<number, variant, cli_ok, gui_ok>>
tel_vars == <<value, tel_cli, tel_gui>>
cli_vars == <<args, cli_pc, rc, stdout, stderr, cli_archive>>
gui_vars == <<entries, payload, preview, messagebox, gui_archive>>
vars == <<mobile_vars, tel_vars, cli_vars, gui_vars>>

(***************************************************************************)
(* Bounds of the model.                                                    *)
(***************************************************************************)
\* separators inserted into a base number
MaxSeps == 2
\* longest run of trailing digits tried after +49
MaxRun == 14
\* pieces a telephone value is put together from
MaxTelTokens == 3
\* longest name or title made of every character of the field alphabet
MaxFieldLen == 2
\* pieces a mobile number is put together from
MaxMobileTokens == 3

(***************************************************************************)
(* Python str primitives.                                                  *)
(***************************************************************************)
\* the characters str.isspace() and the regex class \s hold of, among those used
Whitespace == {" ", "\t", "\n"}

\* the regex class \d, among the characters used
Digit == {"0", "1", "2", "3", "4", "5", "6", "7", "8", "9"}

Max(a, b) == IF a > b THEN a ELSE b
Min(a, b) == IF a < b THEN a ELSE b

RECURSIVE FirstNonSpace(_, _)
FirstNonSpace(s, i) ==
    IF i <= Len(s) /\ s[i] \in Whitespace THEN FirstNonSpace(s, i + 1) ELSE i

RECURSIVE LastNonSpace(_, _)
LastNonSpace(s, j) ==
    IF j >= 1 /\ s[j] \in Whitespace THEN LastNonSpace(s, j - 1) ELSE j

\* str.lstrip()
LStrip(s) == SubSeq(s, FirstNonSpace(s, 1), Len(s))

\* str.strip()
Strip(s) ==
    LET a == FirstNonSpace(s, 1)
        b == LastNonSpace(s, Len(s))
    IN  IF a > b THEN <<>> ELSE SubSeq(s, a, b)

StartsWith(s, p) == Len(s) >= Len(p) /\ SubSeq(s, 1, Len(p)) = p

EndsWith(s, p) == Len(s) >= Len(p) /\ SubSeq(s, Len(s) - Len(p) + 1, Len(s)) = p

\* str.replace(old, new): every non-overlapping occurrence, left to right
RECURSIVE Replace(_, _, _)
Replace(s, old, new) ==
    IF s = <<>> THEN <<>>
    ELSE IF StartsWith(s, old)
         THEN new \o Replace(SubSeq(s, Len(old) + 1, Len(s)), old, new)
         ELSE <<Head(s)>> \o Replace(Tail(s), old, new)

\* re.sub(r"^" + old, new, s): the pattern is anchored, only a leading match is replaced
SubLeading(s, old, new) ==
    IF StartsWith(s, old) THEN new \o SubSeq(s, Len(old) + 1, Len(s)) ELSE s

\* re.sub(r"[" + class + "]", "", s)
RemoveChars(s, class) == SelectSeq(s, LAMBDA c : c \notin class)

\* re.sub(r"\s+", " ", s)
RECURSIVE CollapseWhitespace(_)
CollapseWhitespace(s) ==
    IF s = <<>> THEN <<>>
    ELSE IF Head(s) \in Whitespace
         THEN <<" ">> \o CollapseWhitespace(LStrip(s))
         ELSE <<Head(s)>> \o CollapseWhitespace(Tail(s))

(***************************************************************************)
(* Regular expressions: a pattern is a tree of character classes,          *)
(* concatenations and bounded repetitions; Ends gives the positions a      *)
(* match can end at.  fullmatch consumes the whole string, which makes the *)
(* anchors ^ and $ of the three patterns hold by construction.             *)
(***************************************************************************)
Chr(S) == [op |-> "chr", chars |-> S, items |-> <<>>, min |-> 1, max |-> 1]
Lit(c) == Chr({c})
Cat(items) == [op |-> "seq", chars |-> {}, items |-> items, min |-> 1, max |-> 1]
Rep(r, lo, hi) == [op |-> "rep", chars |-> {}, items |-> <<r>>, min |-> lo, max |-> hi]
Opt(r) == Rep(r, 0, 1)

RECURSIVE Ends(_, _, _)
RECURSIVE SeqEnds(_, _, _, _)
RECURSIVE RepEnds(_, _, _, _, _)
Ends(re, s, from) ==
    IF from = {} THEN {}
    ELSE IF re.op = "chr"
         THEN {k + 1 : k \in {i \in from : i <= Len(s) /\ s[i] \in re.chars}}
         ELSE IF re.op = "seq" THEN SeqEnds(re.items, 1, s, from)
              ELSE RepEnds(re.items[1], re.min, re.max, s, from)
SeqEnds(items, k, s, from) ==
    IF k > Len(items) THEN from ELSE SeqEnds(items, k + 1, s, Ends(items[k], s, from))
RepEnds(r, lo, hi, s, from) ==
    IF hi = 0 \/ from = {} THEN from
    ELSE (IF lo = 0 THEN from ELSE {})
             \cup RepEnds(r, Max(lo - 1, 0), hi - 1, s, Ends(r, s, from))

fullmatch(re, s) == (Len(s) + 1) \in Ends(re, s, {1})

(***************************************************************************)
(* The patterns.                                                           *)
(***************************************************************************)
\* \d{8} of BELGIAN_NATIONAL_PATTERN
NationalDigits == 8
\* \d{9} of BELGIAN_INTERNATIONAL_PATTERN
InternationalDigits == 9
\* \d{7,13} of GERMAN_PATTERN
GermanMinDigits == 7
GermanMaxDigits == 13

\* r"^04\d{8}$"
BELGIAN_NATIONAL_PATTERN ==
    Cat(<<Lit("0"), Lit("4"), Rep(Chr(Digit), NationalDigits, NationalDigits)>>)

\* r"^\+32\d{9}$"
BELGIAN_INTERNATIONAL_PATTERN ==
    Cat(<<Lit("+"), Lit("3"), Lit("2"),
          Rep(Chr(Digit), InternationalDigits, InternationalDigits)>>)

\* r"^\+49(?:\(0\))?\s?\d{7,13}$"
GERMAN_PATTERN ==
    Cat(<<Lit("+"), Lit("4"), Lit("9"),
          Opt(Cat(<<Lit("("), Lit("0"), Lit(")")>>)),
          Opt(Chr(Whitespace)),
          Rep(Chr(Digit), GermanMinDigits, GermanMaxDigits)>>)

\* the class [\s()-]
Separators == Whitespace \cup {"(", ")", "-"}

(***************************************************************************)
(* The mobile validity predicate, command-line copy.                       *)
(***************************************************************************)
\* a plausible slip: the German candidate's hyphens and parentheses stripped as well
is_valid_mobile_number_stripping(n) ==
    LET clean == RemoveChars(n, Separators)
        normalized == SubLeading(clean, <<"+", "3", "2", "0">>, <<"+", "3", "2">>)
    IN  \/ fullmatch(BELGIAN_NATIONAL_PATTERN, normalized)
        \/ fullmatch(BELGIAN_INTERNATIONAL_PATTERN, normalized)
        \/ fullmatch(GERMAN_PATTERN, clean)

\* a plausible slip: the patterns tried on the trimmed text, separators kept
is_valid_mobile_number_unclean(n) ==
    LET trimmed == Strip(n)
        normalized == SubLeading(trimmed, <<"+", "3", "2", "0">>, <<"+", "3", "2">>)
    IN  \/ fullmatch(BELGIAN_NATIONAL_PATTERN, normalized)
        \/ fullmatch(BELGIAN_INTERNATIONAL_PATTERN, normalized)
        \/ fullmatch(GERMAN_PATTERN, CollapseWhitespace(trimmed))

\* a plausible slip: the leading +320 is not normalized
is_valid_mobile_number_raw320(n) ==
    LET trimmed == Strip(n)
        clean == RemoveChars(n, Separators)
    IN  \/ fullmatch(BELGIAN_NATIONAL_PATTERN, clean)
        \/ fullmatch(BELGIAN_INTERNATIONAL_PATTERN, clean)
        \/ fullmatch(GERMAN_PATTERN, CollapseWhitespace(trimmed))

is_valid_mobile_number(n) ==
    LET trimmed == Strip(n)
        clean == RemoveChars(n, Separators)
        normalized == SubLeading(clean, <<"+", "3", "2", "0">>, <<"+", "3", "2">>)
    IN  IF fullmatch(BELGIAN_NATIONAL_PATTERN, normalized) THEN TRUE
        ELSE IF fullmatch(BELGIAN_INTERNATIONAL_PATTERN, normalized) THEN TRUE
        ELSE LET german_candidate == CollapseWhitespace(trimmed)
             IN  fullmatch(GERMAN_PATTERN, german_candidate)

(***************************************************************************)
(* The mobile validity predicate, desktop copy: str.replace instead of an  *)
(* anchored re.sub.                                                        *)
(***************************************************************************)
\* a plausible slip: +320 is not shortened at all
is_valid_mobile_unshortened(n) ==
    LET trimmed == Strip(n)
        clean == RemoveChars(n, Separators)
    IN  IF fullmatch(BELGIAN_NATIONAL_PATTERN, clean) THEN TRUE
        ELSE IF fullmatch(BELGIAN_INTERNATIONAL_PATTERN, clean) THEN TRUE
        ELSE LET german_candidate == CollapseWhitespace(trimmed)
             IN  fullmatch(GERMAN_PATTERN, german_candidate)

is_valid_mobile(n) ==
    LET trimmed == Strip(n)
        clean == RemoveChars(n, Separators)
        normalized == Replace(clean, <<"+", "3", "2", "0">>, <<"+", "3", "2">>)
    IN  IF fullmatch(BELGIAN_NATIONAL_PATTERN, normalized) THEN TRUE
        ELSE IF fullmatch(BELGIAN_INTERNATIONAL_PATTERN, normalized) THEN TRUE
        ELSE LET german_candidate == CollapseWhitespace(trimmed)
             IN  fullmatch(GERMAN_PATTERN, german_candidate)

(***************************************************************************)
(* Sanitizers and escapers.                                                *)
(***************************************************************************)
\* the class [^+0-9], complemented: what the telephone sanitizer keeps
TelChars == {"+", "0", "1", "2", "3", "4", "5", "6", "7", "8", "9"}

KeepChars(s, class) == SelectSeq(s, LAMBDA c : c \in class)

\* command-line copy: anchored re.sub
sanitize_tel(v) ==
    LET s1 == RemoveChars(v, Separators)
        s2 == SubLeading(s1, <<"+", "3", "2", "0">>, <<"+", "3", "2">>)
        s3 == SubLeading(s2, <<"+", "4", "9", "0">>, <<"+", "4", "9">>)
    IN  KeepChars(s3, TelChars)

\* desktop copy: str.replace
gui_sanitize_tel(v) ==
    LET s1 == RemoveChars(v, Separators)
        s2 == Replace(s1, <<"+", "3", "2", "0">>, <<"+", "3", "2">>)
        s3 == Replace(s2, <<"+", "4", "9", "0">>, <<"+", "4", "9">>)
    IN  KeepChars(s3, TelChars)

(***************************************************************************)
(* More of Python's str and of the standard library.                       *)
(***************************************************************************)
UpperCaseLetters ==
    <<"A", "B", "C", "D", "E", "F", "G", "H", "I", "J", "K", "L", "M",
      "N", "O", "P", "Q", "R", "S", "T", "U", "V", "W", "X", "Y", "Z">>
LowerCaseLetters ==
    <<"a", "b", "c", "d", "e", "f", "g", "h", "i", "j", "k", "l", "m",
      "n", "o", "p", "q", "r", "s", "t", "u", "v", "w", "x", "y", "z">>

LowerChar(c) ==
    IF \E i \in 1..Len(UpperCaseLetters) : UpperCaseLetters[i] = c
    THEN LowerCaseLetters[CHOOSE i \in 1..Len(UpperCaseLetters) : UpperCaseLetters[i] = c]
    ELSE c

\* str.lower()
LowerCase(s) == [i \in 1..Len(s) |-> LowerChar(s[i])]

RECURSIVE FindNewline(_, _)
FindNewline(s, i) == IF i > Len(s) \/ s[i] = "\n" THEN i ELSE FindNewline(s, i + 1)

\* the lines of s from position start on: what the MULTILINE anchors ^ and $ delimit
RECURSIVE SplitLines(_, _)
SplitLines(s, start) ==
    LET j == FindNewline(s, start)
    IN  IF j > Len(s) THEN <<SubSeq(s, start, Len(s))>>
        ELSE <<SubSeq(s, start, j - 1)>> \o SplitLines(s, j + 1)

\* "\n".join(lines[lo..hi])
RECURSIVE JoinLines(_, _, _)
JoinLines(lines, lo, hi) ==
    IF lo = hi THEN lines[lo]
    ELSE LET mid == (lo + hi) \div 2
         IN  JoinLines(lines, lo, mid) \o <<"\n">> \o JoinLines(lines, mid + 1, hi)

\* the class [ \t] of textwrap's two patterns
Blank == {" ", "\t"}

RECURSIVE FirstNonBlank(_, _)
FirstNonBlank(l, i) == IF i <= Len(l) /\ l[i] \in Blank THEN FirstNonBlank(l, i + 1) ELSE i

\* a line textwrap's _whitespace_only_re empties, or an empty one
IsBlankLine(l) == FirstNonBlank(l, 1) > Len(l)

\* the group (^[ \t]*) of _leading_whitespace_re
LeadingBlanks(l) == SubSeq(l, 1, FirstNonBlank(l, 1) - 1)

\* textwrap.dedent: lines of blanks are emptied, and the longest blank prefix common
\* to all other lines is removed from each of them
dedent(text) ==
    LET lines == SplitLines(text, 1)
        indents == {LeadingBlanks(lines[k]) : k \in {i \in 1..Len(lines) : ~IsBlankLine(lines[i])}}
        first == CHOOSE x \in indents : TRUE
        common == {k \in 0..Len(first) : \A x \in indents : StartsWith(x, SubSeq(first, 1, k))}
        margin == IF indents = {} THEN 0 ELSE CHOOSE k \in common : \A j \in common : j <= k
        out == [k \in 1..Len(lines) |->
                   IF IsBlankLine(lines[k]) THEN <<>>
                   ELSE SubSeq(lines[k], margin + 1, Len(lines[k]))]
    IN  JoinLines(out, 1, Len(out))

\* a plausible slip: quote=False, the two quote characters left as they are
html_escape_noquote(s) ==
    LET s1 == Replace(s, <<"&">>, <<"&", "a", "m", "p", ";">>)
        s2 == Replace(s1, <<"<">>, <<"&", "l", "t", ";">>)
    IN  Replace(s2, <<">">>, <<"&", "g", "t", ";">>)

\* html.escape(s, quote=True): & first, then <, >, " and '
html_escape(s) ==
    LET s1 == Replace(s, <<"&">>, <<"&", "a", "m", "p", ";">>)
        s2 == Replace(s1, <<"<">>, <<"&", "l", "t", ";">>)
        s3 == Replace(s2, <<">">>, <<"&", "g", "t", ";">>)
        s4 == Replace(s3, <<"\"">>, <<"&", "q", "u", "o", "t", ";">>)
    IN  Replace(s4, <<"'">>, <<"&", "#", "x", "2", "7", ";">>)

\* the class [a-zA-Z0-9@._+-]
FileSegmentChars ==
    {UpperCaseLetters[i] : i \in 1..Len(UpperCaseLetters)}
        \cup {LowerCaseLetters[i] : i \in 1..Len(LowerCaseLetters)}
        \cup {"0", "1", "2", "3", "4", "5", "6", "7", "8", "9", "@", ".", "_", "+", "-"}

\* re.sub(r"[^a-zA-Z0-9@._+-]", "_", value), the same in both front-ends
sanitize_file_segment(v) == [i \in 1..Len(v) |-> IF v[i] \in FileSegmentChars THEN v[i] ELSE "_"]

\* a plausible slip: the braces escaped first, so that their backslashes are escaped again
escape_rtf_braces_first(v) ==
    LET s1 == Replace(v, <<"{">>, <<"\\", "{">>)
        s2 == Replace(s1, <<"}">>, <<"\\", "}">>)
    IN  Replace(s2, <<"\\">>, <<"\\", "\\">>)

\* value.replace("\\", "\\\\").replace("{", "\\{").replace("}", "\\}"), the same in both
escape_rtf(v) ==
    LET s1 == Replace(v, <<"\\">>, <<"\\", "\\">>)
        s2 == Replace(s1, <<"{">>, <<"\\", "{">>)
    IN  Replace(s2, <<"}">>, <<"\\", "}">>)

contact_info_html_mobile_1 ==
    <<"\n",
      " ", " ", " ", " ", " ", " ", " ", " ", "<div style=\"font-size:9pt;color:#2F363A;\">Mobile: <a href=\"tel:">>

contact_info_html_mobile_2 ==
    <<"\" style=\"color:#2F363A;text-decoration:none;\">">>

contact_info_html_mobile_3 ==
    <<"</a></div>", "\n",
      " ", " ", " ", " ", " ", " ", " ", " ">>

contact_info_html_mobile(tel_mobile, safe_mobile) ==
    contact_info_html_mobile_1 \o tel_mobile \o contact_info_html_mobile_2 \o safe_mobile \o contact_info_html_mobile_3

contact_info_text_mobile_1 ==
    <<"Mobile: ">>

contact_info_text_mobile_2 ==
    <<"\n">>

contact_info_text_mobile(mobile) ==
    contact_info_text_mobile_1 \o mobile \o contact_info_text_mobile_2

contact_info_html_phone_1 ==
    <<"\n",
      " ", " ", " ", " ", " ", " ", " ", " ", " ", " ", " ", " ", "<div style=\"font-size:9pt;color:#2F363A;\">Phone: <a href=\"tel:">>

contact_info_html_phone_2 ==
    <<"\" style=\"color:#2F363A;text-decoration:none;\">">>

contact_info_html_phone_3 ==
    <<"</a></div>", "\n",
      " ", " ", " ", " ", " ", " ", " ", " ", " ", " ", " ", " ">>

contact_info_html_phone(tel_phone, safe_phone) ==
    contact_info_html_phone_1 \o tel_phone \o contact_info_html_phone_2 \o safe_phone \o contact_info_html_phone_3

contact_info_text_phone_1 ==
    <<"Phone: ">>

contact_info_text_phone_2 ==
    <<"\n">>

contact_info_text_phone(phone) ==
    contact_info_text_phone_1 \o phone \o contact_info_text_phone_2

contact_info_html_email_1 ==
    <<"\n",
      " ", " ", " ", " ", " ", " ", " ", " ", "<div style=\"font-size:9pt;color:#2F363A;\">E-mail: <a href=\"mailto:">>

contact_info_html_email_2 ==
    <<"\" style=\"color:#0092BC;text-decoration:none;\">">>

contact_info_html_email_3 ==
    <<"</a></div>", "\n",
      " ", " ", " ", " ", " ", " ", " ", " ">>

contact_info_html_email(safe_email) ==
    contact_info_html_email_1 \o safe_email \o contact_info_html_email_2 \o safe_email \o contact_info_html_email_3

contact_info_text_email_1 ==
    <<"E-mail: ">>

contact_info_text_email_2 ==
    <<"\n">>

contact_info_text_email(email) ==
    contact_info_text_email_1 \o email \o contact_info_text_email_2

html_signature_fstring_1 ==
    <<"\n",
      " ", " ", " ", " ", " ", " ", " ", " ", "<html><head><meta charset=\"UTF-8\"></head><body>", "\n",
      " ", " ", " ", " ", " ", " ", " ", " ", "<div style=\"font-family:Calibri,Arial,sans-serif; font-size:9pt; color:#2F363A; line-height:1.4; max-width:600px;\">", "\n",
      " ", " ", " ", " ", " ", " ", " ", " ", " ", " ", "<div>Best regards,</div><br>", "\n",
      " ", " ", " ", " ", " ", " ", " ", " ", " ", " ", "<div style=\"font-weight:bold; color:#0092BC; font-size:11pt; margin-top:4px;\">">>

html_signature_fstring_2 ==
    <<"</div>", "\n",
      " ", " ", " ", " ", " ", " ", " ", " ", " ", " ", "<div style=\"font-weight:bold; font-size:9pt; margin-top:2px;\">">>

html_signature_fstring_3 ==
    <<"</div>", "\n",
      "\n",
      " ", " ", " ", " ", " ", " ", " ", " ", " ", " ", "<hr style=\"border:0;border-top:1px solid #E1D6CE;margin:8px 0;\">", "\n",
      "\n",
      " ", " ", " ", " ", " ", " ", " ", " ", " ", " ", "<div style=\"font-weight:bold; font-size:10pt;\">Atlas Copco Tools Central Europe GmbH</div>", "\n",
      " ", " ", " ", " ", " ", " ", " ", " ", " ", " ", "<div>Head Office: Atlas Copco Tools Central Europe GmbH, Langemarckstr. 35, D-45141 Essen</div>", "\n",
      " ", " ", " ", " ", " ", " ", " ", " ", " ", " ", "<div style=\"color:red; font-weight:bold;\">Head Office: <u>New Address as of Dec 1, 2025</u>: Wetterschacht 9, D-45139 Essen</div>", "\n",
      " ", " ", " ", " ", " ", " ", " ", " ", " ", " ", "<div>Branch Office Belgium (Atlas Copco Tools Belgium): Bremakker 45, B-3740 Bilzen</div>", "\n",
      " ", " ", " ", " ", " ", " ", " ", " ", " ", " ", "<div>Managing Director: Claus Schiedeck, Peter Edmonds</div><br>", "\n",
      "\n",
      " ", " ", " ", " ", " ", " ", " ", " ", " ", " ">>

html_signature_fstring_4 ==
    <<"\n",
      "\n",
      " ", " ", " ", " ", " ", " ", " ", " ", " ", " ", "<div style=\"margin-top:6px;\">VAT Reg.No.: DE811155641 (Germany) / BE0473470658 (Belgium)</div>", "\n",
      " ", " ", " ", " ", " ", " ", " ", " ", " ", " ", "<div>Company Reg. Office: HRB 5096 \\u2013 Local Court Essen (Head Office) / R.C.B. 646980 - Brussels (Belgian Branch)</div>", "\n",
      " ", " ", " ", " ", " ", " ", " ", " ", " ", " ", "<div>Peppol ID (Belgium): 0208:0473470658</div>", "\n",
      "\n",
      " ", " ", " ", " ", " ", " ", " ", " ", " ", " ", "<div style=\"margin-top:6px;\">Privacy Policy: <a href=\"https://www.atlascopco.com/nl-be/itba/privacy-policy\" target=\"_blank\" style=\"color:#0092BC;text-decoration:none;\">https://www.atlascopco.com/nl-be/itba/privacy-policy</a></div>", "\n",
      "\n",
      " ", " ", " ", " ", " ", " ", " ", " ", " ", " ", "<hr style=\"border:0;border-top:1px solid #E1D6CE;margin:8px 0;\">", "\n",
      "\n",
      " ", " ", " ", " ", " ", " ", " ", " ", " ", " ", "<div><b style=\"color:#0092BC;\">Level up your experience at</b> <a href=\"https://www.atlascopco.com\" target=\"_blank\" style=\"color:#0092BC; font-style:italic; text-decoration:none;\">atlascopco.com</a></div>", "\n",
      "\n",
      " ", " ", " ", " ", " ", " ", " ", " ", " ", " ", "<hr style=\"border:0;border-top:1px solid #E1D6CE;margin:8px 0;\">", "\n",
      "\n",
      " ", " ", " ", " ", " ", " ", " ", " ", " ", " ", "<table cellpadding=\"0\" cellspacing=\"0\" border=\"0\">", "\n",
      " ", " ", " ", " ", " ", " ", " ", " ", " ", " ", " ", " ", "<tr>", "\n",
      " ", " ", " ", " ", " ", " ", " ", " ", " ", " ", " ", " ", " ", " ", "<td><img src=\"https://groupapp.atlascopco.com/mail-signature/Signature/AtlasCopco/ACBlueSquare.png\" width=\"8\" height=\"8\" style=\"display:block;\"></td>", "\n",
      " ", " ", " ", " ", " ", " ", " ", " ", " ", " ", " ", " ", " ", " ", "<td style=\"padding-left:5px;\">", "\n",
      " ", " ", " ", " ", " ", " ", " ", " ", " ", " ", " ", " ", " ", " ", " ", " ", "<span style=\"font-size:8pt; color:#A1A9B4; font-weight:bold;\">Part of Atlas Copco Group</span>", "\n",
      " ", " ", " ", " ", " ", " ", " ", " ", " ", " ", " ", " ", " ", " ", "</td>", "\n",
      " ", " ", " ", " ", " ", " ", " ", " ", " ", " ", " ", " ", "</tr>", "\n",
      " ", " ", " ", " ", " ", " ", " ", " ", " ", " ", "</table>", "\n",
      " ", " ", " ", " ", " ", " ", " ", " ", "</div>", "\n",
      " ", " ", " ", " ", " ", " ", " ", " ", "</body></html>", "\n",
      " ", " ", " ", " ", " ", " ", " ", " ">>

html_signature_fstring(safe_name, safe_title, contact) ==
    html_signature_fstring_1 \o safe_name \o html_signature_fstring_2 \o safe_title \o html_signature_fstring_3 \o contact \o html_signature_fstring_4

text_signature_fstring_1 ==
    <<"\n",
      " ", " ", " ", " ", " ", " ", " ", " ", "Best regards,", "\n",
      " ", " ", " ", " ", " ", " ", " ", " ">>

text_signature_fstring_2 ==
    <<"\n",
      " ", " ", " ", " ", " ", " ", " ", " ">>

text_signature_fstring_3 ==
    <<"\n",
      "\n",
      " ", " ", " ", " ", " ", " ", " ", " ", "----------------------------------------", "\n",
      " ", " ", " ", " ", " ", " ", " ", " ", "Atlas Copco Tools Central Europe GmbH", "\n",
      " ", " ", " ", " ", " ", " ", " ", " ", "Head Office: Atlas Copco Tools Central Europe GmbH, Langemarckstr. 35, D-45141 Essen", "\n",
      " ", " ", " ", " ", " ", " ", " ", " ", "Head Office: New Address as of Dec 1, 2025: Wetterschacht 9, D-45139 Essen", "\n",
      " ", " ", " ", " ", " ", " ", " ", " ", "Branch Office Belgium (Atlas Copco Tools Belgium): Bremakker 45, B-3740 Bilzen", "\n",
      " ", " ", " ", " ", " ", " ", " ", " ", "Managing Director: Claus Schiedeck, Peter Edmonds", "\n",
      "\n",
      " ", " ", " ", " ", " ", " ", " ", " ">>

text_signature_fstring_4 ==
    <<"VAT Reg.No.: DE811155641 (Germany) / BE0473470658 (Belgium)", "\n",
      " ", " ", " ", " ", " ", " ", " ", " ", "Company Reg. Office: HRB 5096 \\u2013 Local Court Essen (Head Office) / R.C.B. 646980 - Brussels (Belgian Branch)", "\n",
      " ", " ", " ", " ", " ", " ", " ", " ", "Peppol ID (Belgium): 0208:0473470658", "\n",
      "\n",
      " ", " ", " ", " ", " ", " ", " ", " ", "Privacy Policy: https://www.atlascopco.com/nl-be/itba/privacy-policy", "\n",
      " ", " ", " ", " ", " ", " ", " ", " ", "----------------------------------------", "\n",
      " ", " ", " ", " ", " ", " ", " ", " ", "Level up your experience at atlascopco.com", "\n",
      " ", " ", " ", " ", " ", " ", " ", " ", "----------------------------------------", "\n",
      " ", " ", " ", " ", " ", " ", " ", " ", "Part of Atlas Copco Group", "\n",
      " ", " ", " ", " ", " ", " ", " ", " ">>

text_signature_fstring(name, title, contact) ==
    text_signature_fstring_1 \o name \o text_signature_fstring_2 \o title \o text_signature_fstring_3 \o contact \o text_signature_fstring_4

rtf_signature_fstring_1 ==
    <<"\n",
      " ", " ", " ", " ", " ", " ", " ", " ", "{\\rtf1\\ansi\\deff0", "\n",
      " ", " ", " ", " ", " ", " ", " ", " ", "{\\fonttbl{\\f0 Calibri;}}", "\n",
      " ", " ", " ", " ", " ", " ", " ", " ", "\\f0\\fs18 Best regards,\\line", "\n",
      " ", " ", " ", " ", " ", " ", " ", " ", "\\b\\cf1 ">>

rtf_signature_fstring_2 ==
    <<"\\b0\\line", "\n",
      " ", " ", " ", " ", " ", " ", " ", " ">>

rtf_signature_fstring_3 ==
    <<"\\line", "\n",
      " ", " ", " ", " ", " ", " ", " ", " ", "\\line", "\n",
      " ", " ", " ", " ", " ", " ", " ", " ", "Atlas Copco Tools Central Europe GmbH\\line", "\n",
      " ", " ", " ", " ", " ", " ", " ", " ", "Head Office: Atlas Copco Tools Central Europe GmbH, Langemarckstr. 35, D-45141 Essen\\line", "\n",
      " ", " ", " ", " ", " ", " ", " ", " ", "Head Office: New Address as of Dec 1, 2025: Wetterschacht 9, D-45139 Essen\\line", "\n",
      " ", " ", " ", " ", " ", " ", " ", " ", "Branch Office Belgium (Atlas Copco Tools Belgium): Bremakker 45, B-3740 Bilzen\\line", "\n",
      " ", " ", " ", " ", " ", " ", " ", " ", "Managing Director: Claus Schiedeck, Peter Edmonds\\line", "\n",
      " ", " ", " ", " ", " ", " ", " ", " ", "\\line", "\n",
      " ", " ", " ", " ", " ", " ", " ", " ">>

rtf_signature_fstring_4 ==
    <<"\\line", "\n",
      " ", " ", " ", " ", " ", " ", " ", " ", "VAT Reg.No.: DE811155641 (Germany) / BE0473470658 (Belgium)\\line", "\n",
      " ", " ", " ", " ", " ", " ", " ", " ", "Company Reg. Office: HRB 5096 \\u2013 Local Court Essen (Head Office) / R.C.B. 646980 - Brussels (Belgian Branch)\\line", "\n",
      " ", " ", " ", " ", " ", " ", " ", " ", "Peppol ID (Belgium): 0208:0473470658\\line", "\n",
      " ", " ", " ", " ", " ", " ", " ", " ", "\\line", "\n",
      " ", " ", " ", " ", " ", " ", " ", " ", "Privacy Policy: https://www.atlascopco.com/nl-be/itba/privacy-policy\\line", "\n",
      " ", " ", " ", " ", " ", " ", " ", " ", "Level up your experience at atlascopco.com\\line", "\n",
      " ", " ", " ", " ", " ", " ", " ", " ", "Part of Atlas Copco Group", "\n",
      " ", " ", " ", " ", " ", " ", " ", " ", "}", "\n",
      " ", " ", " ", " ", " ", " ", " ", " ">>

rtf_signature_fstring(rtf_name, rtf_title, rtf_contact) ==
    rtf_signature_fstring_1 \o rtf_name \o rtf_signature_fstring_2 \o rtf_title \o rtf_signature_fstring_3 \o rtf_contact \o rtf_signature_fstring_4

contact_html_mobile_1 ==
    <<"<div style=\"font-size:9pt;color:#2F363A;\">Mobile: <a href=\"tel:">>

contact_html_mobile_2 ==
    <<"\" style=\"color:#2F363A;text-decoration:none;\">">>

contact_html_mobile_3 ==
    <<"</a></div>">>

contact_html_mobile(tel_mobile, safe_mobile) ==
    contact_html_mobile_1 \o tel_mobile \o contact_html_mobile_2 \o safe_mobile \o contact_html_mobile_3

contact_text_mobile_1 ==
    <<"Mobile: ">>

contact_text_mobile_2 ==
    <<"\n">>

contact_text_mobile(mobile) ==
    contact_text_mobile_1 \o mobile \o contact_text_mobile_2

contact_html_phone_1 ==
    <<"<div style=\"font-size:9pt;color:#2F363A;\">Phone: <a href=\"tel:">>

contact_html_phone_2 ==
    <<"\" style=\"color:#2F363A;text-decoration:none;\">">>

contact_html_phone_3 ==
    <<"</a></div>">>

contact_html_phone(tel_phone, safe_phone) ==
    contact_html_phone_1 \o tel_phone \o contact_html_phone_2 \o safe_phone \o contact_html_phone_3

contact_text_phone_1 ==
    <<"Phone: ">>

contact_text_phone_2 ==
    <<"\n">>

contact_text_phone(phone) ==
    contact_text_phone_1 \o phone \o contact_text_phone_2

contact_html_email_1 ==
    <<"<div style=\"font-size:9pt;color:#2F363A;\">E-mail: <a href=\"mailto:">>

contact_html_email_2 ==
    <<"\" style=\"color:#0092BC;text-decoration:none;\">">>

contact_html_email_3 ==
    <<"</a></div>">>

contact_html_email(safe_email) ==
    contact_html_email_1 \o safe_email \o contact_html_email_2 \o safe_email \o contact_html_email_3

contact_text_email_1 ==
    <<"E-mail: ">>

contact_text_email_2 ==
    <<"\n">>

contact_text_email(email) ==
    contact_text_email_1 \o email \o contact_text_email_2

gui_html_signature_fstring_1 ==
    <<"\n",
      " ", " ", " ", " ", " ", " ", " ", " ", " ", " ", " ", " ", "<html><head><meta charset=\"UTF-8\"></head><body>", "\n",
      " ", " ", " ", " ", " ", " ", " ", " ", " ", " ", " ", " ", "<div style=\"font-family:Calibri,Arial,sans-serif; font-size:9pt; color:#2F363A; line-height:1.4; max-width:600px;\">", "\n",
      " ", " ", " ", " ", " ", " ", " ", " ", " ", " ", " ", " ", " ", " ", "<div>Best regards,</div><br>", "\n",
      " ", " ", " ", " ", " ", " ", " ", " ", " ", " ", " ", " ", " ", " ", "<div style=\"font-weight:bold; color:#0092BC; font-size:11pt; margin-top:4px;\">">>

gui_html_signature_fstring_2 ==
    <<"</div>", "\n",
      " ", " ", " ", " ", " ", " ", " ", " ", " ", " ", " ", " ", " ", " ", "<div style=\"font-weight:bold; font-size:9pt; margin-top:2px;\">">>

gui_html_signature_fstring_3 ==
    <<"</div>", "\n",
      "\n",
      " ", " ", " ", " ", " ", " ", " ", " ", " ", " ", " ", " ", " ", " ", "<hr style=\"border:0;border-top:1px solid #E1D6CE;margin:8px 0;\">", "\n",
      "\n",
      " ", " ", " ", " ", " ", " ", " ", " ", " ", " ", " ", " ", " ", " ", "<div style=\"font-weight:bold; font-size:10pt;\">Atlas Copco Tools Central Europe GmbH</div>", "\n",
      " ", " ", " ", " ", " ", " ", " ", " ", " ", " ", " ", " ", " ", " ", "<div>Head Office: Atlas Copco Tools Central Europe GmbH, Langemarckstr. 35, D-45141 Essen</div>", "\n",
      " ", " ", " ", " ", " ", " ", " ", " ", " ", " ", " ", " ", " ", " ", "<div style=\"color:red; font-weight:bold;\">Head Office: <u>New Address as of Dec 1, 2025</u>: Wetterschacht 9, D-45139 Essen</div>", "\n",
      " ", " ", " ", " ", " ", " ", " ", " ", " ", " ", " ", " ", " ", " ", "<div>Branch Office Belgium (Atlas Copco Tools Belgium): Bremakker 45, B-3740 Bilzen</div>", "\n",
      " ", " ", " ", " ", " ", " ", " ", " ", " ", " ", " ", " ", " ", " ", "<div>Managing Director: Claus Schiedeck, Peter Edmonds</div><br>", "\n",
      "\n",
      " ", " ", " ", " ", " ", " ", " ", " ", " ", " ", " ", " ", " ", " ">>

gui_html_signature_fstring_4 ==
    <<"\n",
      "\n",
      " ", " ", " ", " ", " ", " ", " ", " ", " ", " ", " ", " ", " ", " ", "<div style=\"margin-top:6px;\">VAT Reg.No.: DE811155641 (Germany) / BE0473470658 (Belgium)</div>", "\n",
      " ", " ", " ", " ", " ", " ", " ", " ", " ", " ", " ", " ", " ", " ", "<div>Company Reg. Office: HRB 5096 \\u2013 Local Court Essen (Head Office) / R.C.B. 646980 - Brussels (Belgian Branch)</div>", "\n",
      " ", " ", " ", " ", " ", " ", " ", " ", " ", " ", " ", " ", " ", " ", "<div>Peppol ID (Belgium): 0208:0473470658</div>", "\n",
      "\n",
      " ", " ", " ", " ", " ", " ", " ", " ", " ", " ", " ", " ", " ", " ", "<div style=\"margin-top:6px;\">Privacy Policy: <a href=\"https://www.atlascopco.com/nl-be/itba/privacy-policy\" target=\"_blank\" style=\"color:#0092BC;text-decoration:none;\">https://www.atlascopco.com/nl-be/itba/privacy-policy</a></div>", "\n",
      "\n",
      " ", " ", " ", " ", " ", " ", " ", " ", " ", " ", " ", " ", " ", " ", "<hr style=\"border:0;border-top:1px solid #E1D6CE;margin:8px 0;\">", "\n",
      "\n",
      " ", " ", " ", " ", " ", " ", " ", " ", " ", " ", " ", " ", " ", " ", "<div><b style=\"color:#0092BC;\">Level up your experience at</b> <a href=\"https://www.atlascopco.com\" target=\"_blank\" style=\"color:#0092BC; font-style:italic; text-decoration:none;\">atlascopco.com</a></div>", "\n",
      "\n",
      " ", " ", " ", " ", " ", " ", " ", " ", " ", " ", " ", " ", " ", " ", "<hr style=\"border:0;border-top:1px solid #E1D6CE;margin:8px 0;\">", "\n",
      "\n",
      " ", " ", " ", " ", " ", " ", " ", " ", " ", " ", " ", " ", " ", " ", "<table cellpadding=\"0\" cellspacing=\"0\" border=\"0\">", "\n",
      " ", " ", " ", " ", " ", " ", " ", " ", " ", " ", " ", " ", " ", " ", " ", " ", "<tr>", "\n",
      " ", " ", " ", " ", " ", " ", " ", " ", " ", " ", " ", " ", " ", " ", " ", " ", " ", " ", "<td><img src=\"https://groupapp.atlascopco.com/mail-signature/Signature/AtlasCopco/ACBlueSquare.png\" width=\"8\" height=\"8\" style=\"display:block;\"></td>", "\n",
      " ", " ", " ", " ", " ", " ", " ", " ", " ", " ", " ", " ", " ", " ", " ", " ", " ", " ", "<td style=\"padding-left:5px;\">", "\n",
      " ", " ", " ", " ", " ", " ", " ", " ", " ", " ", " ", " ", " ", " ", " ", " ", " ", " ", " ", " ", "<span style=\"font-size:8pt; color:#A1A9B4; font-weight:bold;\">Part of Atlas Copco Group</span>", "\n",
      " ", " ", " ", " ", " ", " ", " ", " ", " ", " ", " ", " ", " ", " ", " ", " ", " ", " ", "</td>", "\n",
      " ", " ", " ", " ", " ", " ", " ", " ", " ", " ", " ", " ", " ", " ", " ", " ", "</tr>", "\n",
      " ", " ", " ", " ", " ", " ", " ", " ", " ", " ", " ", " ", " ", " ", "</table>", "\n",
      " ", " ", " ", " ", " ", " ", " ", " ", " ", " ", " ", " ", "</div>", "\n",
      " ", " ", " ", " ", " ", " ", " ", " ", " ", " ", " ", " ", "</body></html>", "\n",
      " ", " ", " ", " ", " ", " ", " ", " ", " ", " ", " ", " ">>

gui_html_signature_fstring(safe_name, safe_title, contact) ==
    gui_html_signature_fstring_1 \o safe_name \o gui_html_signature_fstring_2 \o safe_title \o gui_html_signature_fstring_3 \o contact \o gui_html_signature_fstring_4

txt_signature_fstring_1 ==
    <<"\n",
      " ", " ", " ", " ", " ", " ", " ", " ", " ", " ", " ", " ", "Best regards,", "\n",
      " ", " ", " ", " ", " ", " ", " ", " ", " ", " ", " ", " ">>

txt_signature_fstring_2 ==
    <<"\n",
      " ", " ", " ", " ", " ", " ", " ", " ", " ", " ", " ", " ">>

txt_signature_fstring_3 ==
    <<"\n",
      "\n",
      " ", " ", " ", " ", " ", " ", " ", " ", " ", " ", " ", " ", "----------------------------------------", "\n",
      " ", " ", " ", " ", " ", " ", " ", " ", " ", " ", " ", " ", "Atlas Copco Tools Central Europe GmbH", "\n",
      " ", " ", " ", " ", " ", " ", " ", " ", " ", " ", " ", " ", "Head Office: Atlas Copco Tools Central Europe GmbH, Langemarckstr. 35, D-45141 Essen", "\n",
      " ", " ", " ", " ", " ", " ", " ", " ", " ", " ", " ", " ", "Head Office: New Address as of Dec 1, 2025: Wetterschacht 9, D-45139 Essen", "\n",
      " ", " ", " ", " ", " ", " ", " ", " ", " ", " ", " ", " ", "Branch Office Belgium (Atlas Copco Tools Belgium): Bremakker 45, B-3740 Bilzen", "\n",
      " ", " ", " ", " ", " ", " ", " ", " ", " ", " ", " ", " ", "Managing Director: Claus Schiedeck, Peter Edmonds", "\n",
      "\n",
      " ", " ", " ", " ", " ", " ", " ", " ", " ", " ", " ", " ">>

txt_signature_fstring_4 ==
    <<"VAT Reg.No.: DE811155641 (Germany) / BE0473470658 (Belgium)", "\n",
      " ", " ", " ", " ", " ", " ", " ", " ", " ", " ", " ", " ", "Company Reg. Office: HRB 5096 \\u2013 Local Court Essen (Head Office) / R.C.B. 646980 - Brussels (Belgian Branch)", "\n",
      " ", " ", " ", " ", " ", " ", " ", " ", " ", " ", " ", " ", "Peppol ID (Belgium): 0208:0473470658", "\n",
      "\n",
      " ", " ", " ", " ", " ", " ", " ", " ", " ", " ", " ", " ", "Privacy Policy: https://www.atlascopco.com/nl-be/itba/privacy-policy", "\n",
      " ", " ", " ", " ", " ", " ", " ", " ", " ", " ", " ", " ", "----------------------------------------", "\n",
      " ", " ", " ", " ", " ", " ", " ", " ", " ", " ", " ", " ", "Level up your experience at atlascopco.com", "\n",
      " ", " ", " ", " ", " ", " ", " ", " ", " ", " ", " ", " ", "----------------------------------------", "\n",
      " ", " ", " ", " ", " ", " ", " ", " ", " ", " ", " ", " ", "Part of Atlas Copco Group", "\n",
      " ", " ", " ", " ", " ", " ", " ", " ", " ", " ", " ", " ">>

txt_signature_fstring(name, title, contact) ==
    txt_signature_fstring_1 \o name \o txt_signature_fstring_2 \o title \o txt_signature_fstring_3 \o contact \o txt_signature_fstring_4

gui_rtf_signature_fstring_1 ==
    <<"\n",
      " ", " ", " ", " ", " ", " ", " ", " ", " ", " ", " ", " ", "{\\rtf1\\ansi\\deff0", "\n",
      " ", " ", " ", " ", " ", " ", " ", " ", " ", " ", " ", " ", "{\\fonttbl{\\f0 Calibri;}}", "\n",
      " ", " ", " ", " ", " ", " ", " ", " ", " ", " ", " ", " ", "\\f0\\fs18 Best regards,\\line", "\n",
      " ", " ", " ", " ", " ", " ", " ", " ", " ", " ", " ", " ", "\\b\\cf1 ">>

gui_rtf_signature_fstring_2 ==
    <<"\\b0\\line", "\n",
      " ", " ", " ", " ", " ", " ", " ", " ", " ", " ", " ", " ">>

gui_rtf_signature_fstring_3 ==
    <<"\\line", "\n",
      " ", " ", " ", " ", " ", " ", " ", " ", " ", " ", " ", " ", "\\line", "\n",
      " ", " ", " ", " ", " ", " ", " ", " ", " ", " ", " ", " ", "Atlas Copco Tools Central Europe GmbH\\line", "\n",
      " ", " ", " ", " ", " ", " ", " ", " ", " ", " ", " ", " ", "Head Office: Atlas Copco Tools Central Europe GmbH, Langemarckstr. 35, D-45141 Essen\\line", "\n",
      " ", " ", " ", " ", " ", " ", " ", " ", " ", " ", " ", " ", "Head Office: New Address as of Dec 1, 2025: Wetterschacht 9, D-45139 Essen\\line", "\n",
      " ", " ", " ", " ", " ", " ", " ", " ", " ", " ", " ", " ", "Branch Office Belgium (Atlas Copco Tools Belgium): Bremakker 45, B-3740 Bilzen\\line", "\n",
      " ", " ", " ", " ", " ", " ", " ", " ", " ", " ", " ", " ", "Managing Director: Claus Schiedeck, Peter Edmonds\\line", "\n",
      " ", " ", " ", " ", " ", " ", " ", " ", " ", " ", " ", " ", "\\line", "\n",
      " ", " ", " ", " ", " ", " ", " ", " ", " ", " ", " ", " ">>

gui_rtf_signature_fstring_4 ==
    <<"\\line", "\n",
      " ", " ", " ", " ", " ", " ", " ", " ", " ", " ", " ", " ", "VAT Reg.No.: DE811155641 (Germany) / BE0473470658 (Belgium)\\line", "\n",
      " ", " ", " ", " ", " ", " ", " ", " ", " ", " ", " ", " ", "Company Reg. Office: HRB 5096 \\u2013 Local Court Essen (Head Office) / R.C.B. 646980 - Brussels (Belgian Branch)\\line", "\n",
      " ", " ", " ", " ", " ", " ", " ", " ", " ", " ", " ", " ", "Peppol ID (Belgium): 0208:0473470658\\line", "\n",
      " ", " ", " ", " ", " ", " ", " ", " ", " ", " ", " ", " ", "\\line", "\n",
      " ", " ", " ", " ", " ", " ", " ", " ", " ", " ", " ", " ", "Privacy Policy: https://www.atlascopco.com/nl-be/itba/privacy-policy\\line", "\n",
      " ", " ", " ", " ", " ", " ", " ", " ", " ", " ", " ", " ", "Level up your experience at atlascopco.com\\line", "\n",
      " ", " ", " ", " ", " ", " ", " ", " ", " ", " ", " ", " ", "Part of Atlas Copco Group", "\n",
      " ", " ", " ", " ", " ", " ", " ", " ", " ", " ", " ", " ", "}", "\n",
      " ", " ", " ", " ", " ", " ", " ", " ", " ", " ", " ", " ">>

gui_rtf_signature_fstring(rtf_name, rtf_title, rtf_contact) ==
    gui_rtf_signature_fstring_1 \o rtf_name \o gui_rtf_signature_fstring_2 \o rtf_title \o gui_rtf_signature_fstring_3 \o rtf_contact \o gui_rtf_signature_fstring_4

(***************************************************************************)
(* The command-line front-end, src/acsignature.py.  A SignatureData is a   *)
(* record of five strings; a phone of None is the empty string, which is   *)
(* what (data.phone or "") makes of it.                                    *)
(***************************************************************************)
EMAIL_DOMAIN == <<"@", "a", "t", "l", "a", "s", "c", "o", "p", "c", "o", ".", "c", "o", "m">>

NameRequired == "Name is required."
TitleRequired == "Title is required."
EmailRequired == "Email address is required."
EmailDomain == "Email address must end with '@atlascopco.com'."
MobileRequired == "Mobile number is required."
MobileFormat ==
    "Mobile number must be a valid Belgian (04xxxxxxxx or +32xxxxxxxxx) or German (+49(0) 123456789) number."

\* a plausible slip: return at the first failing rule
validate_inputs_first_only(data) ==
    LET email == Strip(data.email)
        mobile == Strip(data.mobile)
    IN  IF Strip(data.name) = <<>> THEN <<NameRequired>>
        ELSE IF Strip(data.title) = <<>> THEN <<TitleRequired>>
        ELSE IF email = <<>> THEN <<EmailRequired>>
        ELSE IF ~EndsWith(LowerCase(email), EMAIL_DOMAIN) THEN <<EmailDomain>>
        ELSE IF mobile = <<>> THEN <<MobileRequired>>
        ELSE IF ~is_valid_mobile_number(mobile) THEN <<MobileFormat>>
        ELSE <<>>

\* the list errors at the end of validate_inputs; ValidationError is raised when it
\* is not empty
validate_inputs(data) ==
    LET email == Strip(data.email)
        mobile == Strip(data.mobile)
    IN  (IF Strip(data.name) = <<>> THEN <<NameRequired>> ELSE <<>>)
        \o (IF Strip(data.title) = <<>> THEN <<TitleRequired>> ELSE <<>>)
        \o (IF email = <<>> THEN <<EmailRequired>>
            ELSE IF ~EndsWith(LowerCase(email), EMAIL_DOMAIN) THEN <<EmailDomain>>
            ELSE <<>>)
        \o (IF mobile = <<>> THEN <<MobileRequired>>
            ELSE IF ~is_valid_mobile_number(mobile) THEN <<MobileFormat>>
            ELSE <<>>)

\* "\n".join(errors), each message one line
JoinMessages(errors) ==
    IF errors = <<>> THEN <<>>
    ELSE JoinLines([k \in 1..Len(errors) |-> <<errors[k]>>], 1, Len(errors))

NoSignatures == [html |-> <<>>, text |-> <<>>, rtf |-> <<>>]

\* build_signatures: raised is the list of messages of the ValidationError, empty
\* when the three bodies are returned
build_signatures(data) ==
    LET errors == validate_inputs(data)
        safe_name == html_escape(Strip(data.name))
        safe_title == html_escape(Strip(data.title))
        safe_email == html_escape(Strip(data.email))
        mobile == Strip(data.mobile)
        phone == Strip(data.phone)
        safe_mobile == html_escape(mobile)
        safe_phone == html_escape(phone)
        tel_mobile == sanitize_tel(mobile)
        tel_phone == IF phone # <<>> THEN sanitize_tel(phone) ELSE <<>>
        contact_info_html ==
            Strip(dedent(contact_info_html_mobile(tel_mobile, safe_mobile)))
            \o (IF phone # <<>>
                THEN Strip(dedent(contact_info_html_phone(tel_phone, safe_phone)))
                ELSE <<>>)
            \o Strip(dedent(contact_info_html_email(safe_email)))
        contact_info_text ==
            contact_info_text_mobile(mobile)
            \o (IF phone # <<>> THEN contact_info_text_phone(phone) ELSE <<>>)
            \o contact_info_text_email(Strip(data.email))
        html_signature ==
            Strip(dedent(html_signature_fstring(safe_name, safe_title, contact_info_html)))
        text_signature ==
            Strip(dedent(text_signature_fstring(Strip(data.name), Strip(data.title),
                                                contact_info_text))) \o <<"\n">>
        rtf_contact_info == Replace(contact_info_text, <<"\n">>, <<"\\", "l", "i", "n", "e", " ">>)
        rtf_signature ==
            Strip(dedent(rtf_signature_fstring(escape_rtf(Strip(data.name)),
                                               escape_rtf(Strip(data.title)),
                                               escape_rtf(rtf_contact_info))))
    IN  IF errors # <<>> THEN [raised |-> errors, value |-> NoSignatures]
        ELSE [raised |-> <<>>,
              value |-> [html |-> html_signature, text |-> text_signature, rtf |-> rtf_signature]]

\* the base name both front-ends build: f"AtlasCopco({segment})"
BaseName(segment) == <<"AtlasCopco(">> \o segment \o <<")">>

\* write_zip: the archive it leaves at output / f"{base_name}.zip", which it returns
write_zip(html_signature, text_signature, rtf_signature, email, output) ==
    LET base_name == BaseName(sanitize_file_segment(Strip(email)))
    IN  [path |-> output \o <<"/">> \o base_name \o <<".zip">>,
         entries |-> << [name |-> base_name \o <<".htm">>, data |-> html_signature],
                        [name |-> base_name \o <<".txt">>, data |-> text_signature],
                        [name |-> base_name \o <<".rtf">>, data |-> rtf_signature],
                        [name |-> base_name \o <<"_files/">>, data |-> <<>>] >>]

(***************************************************************************)
(* The graphical front-end, src/signature_generator.py.                    *)
(***************************************************************************)
NaamVerplicht == "Naam is verplicht."
FunctieVerplicht == "Functie is verplicht."
EmailVerplicht == "E-mail is verplicht en moet eindigen op @atlascopco.com."
MobielVerplicht ==
    "Mobiel nummer is verplicht. Gebruik 04xxxxxxxx, +32xxxxxxxxx, +32(0)4xxxxxxxx of +49(0) 123456789."

\* SignatureData.from_entries: every field trimmed
from_entries(e) ==
    [name |-> Strip(e.name), title |-> Strip(e.title), email |-> Strip(e.email),
     mobile |-> Strip(e.mobile), phone |-> Strip(e.phone)]

\* the list errors at the end of SignatureData.validate, which returns True when it
\* is empty and otherwise shows it in an error dialog
validate(self) ==
    (IF self.name = <<>> THEN <<NaamVerplicht>> ELSE <<>>)
    \o (IF self.title = <<>> THEN <<FunctieVerplicht>> ELSE <<>>)
    \o (IF self.email = <<>> \/ ~EndsWith(LowerCase(self.email), EMAIL_DOMAIN)
        THEN <<EmailVerplicht>> ELSE <<>>)
    \o (IF self.mobile = <<>> \/ ~is_valid_mobile(self.mobile)
        THEN <<MobielVerplicht>> ELSE <<>>)

\* SignatureData.contact_info: the pair (contact_html, contact_text)
contact_info(self) ==
    LET safe_mobile == html_escape(self.mobile)
        safe_phone == html_escape(self.phone)
        safe_email == html_escape(self.email)
        tel_mobile == gui_sanitize_tel(self.mobile)
        tel_phone == gui_sanitize_tel(self.phone)
        contact_html ==
            contact_html_mobile(tel_mobile, safe_mobile)
            \o (IF self.phone # <<>> THEN contact_html_phone(tel_phone, safe_phone) ELSE <<>>)
            \o contact_html_email(safe_email)
        contact_text ==
            contact_text_mobile(self.mobile)
            \o (IF self.phone # <<>> THEN contact_text_phone(self.phone) ELSE <<>>)
            \o contact_text_email(self.email)
    IN  <<contact_html, contact_text>>

ManagingDirectorLine == "<div>Managing Director: Claus Schiedeck, Peter Edmonds</div><br>"
ManagingDirectorHidden ==
    "<div>Managing Director: <span style=\"color:#6B7280;\">[Verborgen in preview]</span></div><br>"

\* html_signature.replace(...) of generate: the names of the directors are in one
\* line of the template, and no field of the records below holds them
HidePreview(h) ==
    [i \in 1..Len(h) |-> IF h[i] = ManagingDirectorLine THEN ManagingDirectorHidden ELSE h[i]]

\* SignatureData.generate: the SignaturePayload
generate(self) ==
    LET contact == contact_info(self)
        safe_name == html_escape(self.name)
        safe_title == html_escape(self.title)
        safe_email == html_escape(self.email)
        html_signature ==
            Strip(dedent(gui_html_signature_fstring(safe_name, safe_title, contact[1])))
        txt_signature ==
            Strip(dedent(txt_signature_fstring(self.name, self.title, contact[2])))
        rtf_contact_text == Replace(contact[2], <<"\n">>, <<"\\", "l", "i", "n", "e", " ">>)
        rtf_signature ==
            Strip(dedent(gui_rtf_signature_fstring(escape_rtf(self.name), escape_rtf(self.title),
                                                   escape_rtf(rtf_contact_text))))
    IN  [html |-> html_signature, txt |-> txt_signature, rtf |-> rtf_signature,
         preview_html |-> HidePreview(html_signature), safe_email |-> safe_email]

\* the text the preview shows before anything is generated
PlaceholderHtml ==
    <<"\n",
      " ", " ", " ", " ", " ", " ", " ", " ", " ", " ", " ", " ", "<div style='font-family:Inter, sans-serif; color:#4B5563;'>", "\n",
      " ", " ", " ", " ", " ", " ", " ", " ", " ", " ", " ", " ", " ", " ", "Vul je gegevens in en klik op <strong>Genereer handtekening</strong> om hier een voorbeeld te zien.", "\n",
      " ", " ", " ", " ", " ", " ", " ", " ", " ", " ", " ", " ", "</div>", "\n",
      " ", " ", " ", " ", " ", " ", " ", " ", " ", " ", " ", " ">>

(***************************************************************************)
(* The program.  The command-line front-end runs main once on its          *)
(* arguments; the desktop front-end handles Generate and Export clicks on  *)
(* the text of its five entries.  The same record is given to both.        *)
(***************************************************************************)
Record(n, t, e, m, p) == [name |-> n, title |-> t, email |-> e, mobile |-> m, phone |-> p]

NoRecord == Record(<<>>, <<>>, <<>>, <<>>, <<>>)

\* the directory of the -o option
OutputDir == <<"out">>

DefaultName == <<"J", "o">>
DefaultTitle == <<"D", "e", "v">>
DefaultEmail == <<"j">> \o EMAIL_DOMAIN
DefaultMobile == <<"0", "4", "1", "2", "3", "4", "5", "6", "7", "8">>

\* characters of a name or a title: a letter, the two kinds of whitespace of a pasted
\* text, and every character one of the escapers rewrites
FieldAlphabet == {"a", " ", "\n", "&", "<", ">", "\"", "'", "\\", "{", "}"}

FieldTexts == UNION { [1..k -> FieldAlphabet] : k \in 1..MaxFieldLen }

\* characters of a title: a letter, a blank, and every character escape_rtf rewrites
TitleAlphabet == {"a", " ", "&", "\\", "{", "}"}

TitleTexts == UNION { [1..k -> TitleAlphabet] : k \in 1..MaxFieldLen }

NamedTexts == { <<"<", "s", "c", "r", "i", "p", "t", ">">>, <<"R", "&", "D", " ", "{", "x", "}">>, <<"a", "\\", "b">> }

LocalParts == { <<"j">>, <<"o", "'", "b">>, <<"a", "&", "b">>, <<"J", ".", "D">>, <<"a", " ", "b">>, <<"<", "x", ">">>, <<"a", "+", "b", "-", "c", "_", "d">> }

EmailTexts ==
    { l \o EMAIL_DOMAIN : l \in LocalParts }
        \cup { <<" ", "J", "@", "A", "t", "l", "a", "s", "C", "o", "p", "c", "o", ".", "C", "O", "M", " ">>, <<"j", "@", "a", "t", "l", "a", "s", "c", "o", "p", "c", "o", ".", "c", "o", "m", "\n">> }

MobileTexts ==
    { DefaultMobile, <<"+", "3", "2", " ", "(", "0", ")", "4", "1", "2", "-", "3", "4", " ", "5", "6", " ", "7", "8">>, <<"+", "4", "9", "(", "0", ")", " ", "1", "2", "3", "4", "5", "6", "7">>, <<"+", "4", "9", " ", " ", "1", "2", "3", "4", "5", "6", "7", "8">>,
      <<"0", "4", "\n", "1", "2", "3", "4", "5", "6", "7", "8">> }

PhoneTexts == { <<>>, <<" ">>, <<"0", "1", "1", " ", "2", "2", " ", "3", "3">>, <<"<", "b", ">", "&">>, <<"+", "3", "2", "0", "+", "3", "2", "0", "1">>, <<"a", "\\", "{">> }

\* the records rendered: name or title varies over every short text of its alphabet, or the
\* three contact fields vary together
RenderRecords ==
    { Record(n, DefaultTitle, DefaultEmail, DefaultMobile, <<>>) : n \in FieldTexts \cup NamedTexts }
        \cup { Record(DefaultName, t, DefaultEmail, DefaultMobile, <<"0", "1", "1", " ", "2", "2", " ", "3", "3">>) : t \in TitleTexts }
        \cup { Record(DefaultName, DefaultTitle, e, m, p) :
                   e \in EmailTexts, m \in MobileTexts, p \in PhoneTexts }

\* the records validated: every field is missing, blank, right or wrong
ValidateRecords ==
    { Record(n, t, e, m, p) :
          n \in { <<>>, <<" ">>, DefaultName },
          t \in { <<>>, <<"\n">>, DefaultTitle },
          e \in { <<>>, <<" ">>, DefaultEmail, <<" ", "J", "@", "A", "T", "L", "A", "S", "C", "O", "P", "C", "O", ".", "C", "O", "M", " ">>, <<"p", "e", "r", "s", "o", "n", "@", "e", "x", "a", "m", "p", "l", "e", ".", "c", "o", "m">>,
                  EMAIL_DOMAIN, <<"j", "@", "a", "t", "l", "a", "s", "c", "o", "p", "c", "o", ".", "c", "o", "m", ".", "b", "e">> },
          m \in { <<>>, <<" ">>, DefaultMobile, <<"0", "4", " ", "1", "2", " ", "3", "4", " ", "5", "6", " ", "7", "8">>, <<"1", "2", "3">>, <<"+", "3", "2", "4", "1", "2", "3", "4", "5", "6", "7", "8">>,
                  <<"+", "3", "2", "0", "1", "2", "3", "4", "5", "6", "7", "8">>, <<"+", "4", "9", "(", "0", ")", " ", "1", "2", "3", "4", "5", "6", "7">>, <<"+", "4", "9", "-", "1", "2", "3", "4", "5", "6", "7">> },
          p \in { <<>>, <<"a", "b", "c">>, <<"0", "1", "1", " ", "2", "2", " ", "3", "3">> } }

\* what the front-ends hold before any handler has run
Started ==
    /\ cli_pc = "start"
    /\ rc = <<>>
    /\ stdout = <<>>
    /\ stderr = <<>>
    /\ cli_archive = <<>>
    /\ payload = <<>>
    /\ preview = PlaceholderHtml
    /\ messagebox = <<>>
    /\ gui_archive = <<>>

\* no front-end in use
ProgramIdle == args = NoRecord /\ entries = NoRecord /\ Started

(***************************************************************************)
(* Numbers the validity predicate is applied to.                           *)
(***************************************************************************)
PLUS32 == <<"+", "3", "2">>
PLUS49 == <<"+", "4", "9">>

\* the digits the generated numbers are written with
InputDigits == {"0", "4"}

\* spaces, hyphens and parentheses inserted into a number
InsertedSeparators == {" ", "-", "(", ")"}

InsertAt(s, i, c) == SubSeq(s, 1, i) \o <<c>> \o SubSeq(s, i + 1, Len(s))

\* s with ch[1], ..., ch[k] inserted at the positions pos[1] <= ... <= pos[k] of s
RECURSIVE InsertAll(_, _, _, _)
InsertAll(s, pos, ch, k) ==
    IF k = 0 THEN s ELSE InsertAll(InsertAt(s, pos[k], ch[k]), pos, ch, k - 1)

NonDecreasing(pos) == \A i \in DOMAIN pos : \A j \in DOMAIN pos : i < j => pos[i] <= pos[j]

\* a run of k digits
DigitRun(k) == [i \in 1..k |-> IF i % 3 = 1 THEN "1" ELSE IF i % 3 = 2 THEN "7" ELSE "0"]

SepBases ==
    { <<"0", "4", "1", "2", "3", "4", "5", "6", "7", "8">>,
      <<"+", "3", "2", "4", "1", "2", "3", "4", "5", "6", "7", "8">>,
      <<"+", "3", "2", "0", "4", "1", "2", "3", "4", "5", "6", "7", "8">>,
      <<"0", "4", " ", "1", "2", "-", "3", "4", "5", "6", "7", "8">>,
      <<"0", "3", "1", "2", "3", "4", "5", "6", "7", "8">>,
      <<"+", "4", "9", "1", "2", "3", "4", "5", "6", "7">> }

\* +32 and nine digits, and the same number with a 0 after +32
ZeroPairs ==
    {<<PLUS32 \o d, PLUS32 \o <<"0">> \o d>> : d \in [1..InternationalDigits -> InputDigits]}

GermanAfterPrefix ==
    { <<>>, <<"(", "0", ")">>, <<"(", "0">>, <<"0">>, <<"-">>, <<" ", "(", "0", ")">> }
GermanBeforeDigits ==
    { <<>>, <<" ">>, <<" ", " ">>, <<"\t">>, <<" ", "\n">>, <<"-">> }
GermanAfterDigits == { <<>>, <<" ">>, <<"a">>, <<"-">> }

GermanNumbers ==
    {PLUS49 \o a \o b \o DigitRun(k) \o z :
        a \in GermanAfterPrefix, b \in GermanBeforeDigits, k \in 0..MaxRun,
        z \in GermanAfterDigits}

(***************************************************************************)
(* The validity predicate applied: both copies, to number and variant.     *)
(***************************************************************************)
\* a base number and the same number with at most MaxSeps separators inserted
InitSeparated ==
    \E b \in SepBases : \E k \in 0..MaxSeps :
        \E pos \in [1..k -> 0..Len(b)] : \E ch \in [1..k -> InsertedSeparators] :
            /\ NonDecreasing(pos)
            /\ number = b
            /\ variant = InsertAll(b, pos, ch, k)

InitZeroInserted == \E p \in ZeroPairs : number = p[1] /\ variant = p[2]

InitGerman == \E g \in GermanNumbers : number = g /\ variant = g

\* no call of the validity predicate under way
MobileIdle == number = <<>> /\ variant = <<>> /\ cli_ok = <<>> /\ gui_ok = <<>>

\* no call of the telephone sanitizer under way
TelIdle == value = <<>> /\ tel_cli = <<>> /\ tel_gui = <<>>

InitMobile ==
    /\ InitSeparated \/ InitZeroInserted \/ InitGerman
    /\ cli_ok = <<>>
    /\ gui_ok = <<>>
    /\ TelIdle
    /\ ProgramIdle

CliCheckMobile ==
    /\ cli_ok = <<>>
    /\ cli_ok' = <<is_valid_mobile_number(number), is_valid_mobile_number(variant)>>
    /\ UNCHANGED <<number, variant, gui_ok, tel_vars, cli_vars, gui_vars>>

GuiCheckMobile ==
    /\ gui_ok = <<>>
    /\ gui_ok' = <<is_valid_mobile(number), is_valid_mobile(variant)>>
    /\ UNCHANGED <<number, variant, cli_ok, tel_vars, cli_vars, gui_vars>>

NextMobile == CliCheckMobile \/ GuiCheckMobile

SpecMobile == InitMobile /\ [][NextMobile]_vars

(***************************************************************************)
(* The telephone sanitizer applied: both copies, to value.                 *)
(***************************************************************************)
TelTokens ==
    { <<"+", "3", "2", "0">>, <<"+", "4", "9", "0">>, <<"+", "3", "2">>, <<"+", "4", "9">>,
      <<"+">>, <<"0">>, <<"4">>, <<" ">>, <<"(">>, <<")">>, <<"-">>, <<"a">>, <<"\t">> }

RECURSIVE Flatten(_, _)
Flatten(pieces, k) == IF k > Len(pieces) THEN <<>> ELSE pieces[k] \o Flatten(pieces, k + 1)

InitTel ==
    /\ \E k \in 0..MaxTelTokens : \E t \in [1..k -> TelTokens] : value = Flatten(t, 1)
    /\ tel_cli = <<>>
    /\ tel_gui = <<>>
    /\ MobileIdle
    /\ ProgramIdle

CliSanitizeTel ==
    /\ tel_cli = <<>>
    /\ tel_cli' = <<sanitize_tel(value)>>
    /\ UNCHANGED <<value, tel_gui, mobile_vars, cli_vars, gui_vars>>

GuiSanitizeTel ==
    /\ tel_gui = <<>>
    /\ tel_gui' = <<gui_sanitize_tel(value)>>
    /\ UNCHANGED <<value, tel_cli, mobile_vars, cli_vars, gui_vars>>

NextTel == CliSanitizeTel \/ GuiSanitizeTel

SpecTel == InitTel /\ [][NextTel]_vars

(***************************************************************************)
(* Both copies of the predicate on numbers put together from the pieces    *)
(* the two normalizations treat differently: +320 at the start and later.  *)
(***************************************************************************)
MobileTokens ==
    { <<"+", "3", "2", "0">>, <<"+", "3", "2">>, <<"+", "4", "9">>, <<"+">>, <<"0">>, <<"4">>, <<"0", "4">>, <<"1", "2", "3", "4", "5", "6", "7", "8">>, <<"4", "1", "2", "3", "4", "5", "6", "7", "8">>,
      <<"1", "2", "3", "4", "5", "6", "7">>, <<" ">>, <<"-">>, <<"(", "0", ")">> }

InitMobileTokens ==
    /\ \E k \in 0..MaxMobileTokens : \E t \in [1..k -> MobileTokens] :
           number = Flatten(t, 1) /\ variant = Flatten(t, 1)
    /\ cli_ok = <<>>
    /\ gui_ok = <<>>
    /\ TelIdle
    /\ ProgramIdle

SpecMobileTokens == InitMobileTokens /\ [][NextMobile]_vars

(***************************************************************************)
(* The program run: both front-ends on one record.                         *)
(***************************************************************************)
Init ==
    /\ \E r \in RenderRecords : args = r /\ entries = r
    /\ Started
    /\ MobileIdle
    /\ TelIdle

InitValidate ==
    /\ \E r \in ValidateRecords : args = r /\ entries = r
    /\ Started
    /\ MobileIdle
    /\ TelIdle

\* a plausible slip: the archive is written before the outcome of validation is looked at
main_writes_first ==
    /\ cli_pc = "start"
    /\ \E built \in {build_signatures(args)} :
       \E archive \in {write_zip(built.value.html, built.value.text, built.value.rtf,
                                 args.email, OutputDir)} :
           /\ cli_archive' = <<archive>>
           /\ IF built.raised # <<>>
              THEN /\ stderr' = <<"Error:", "\n">> \o JoinMessages(built.raised) \o <<"\n">>
                   /\ rc' = <<1>>
                   /\ UNCHANGED stdout
              ELSE /\ stdout' = <<"Signature bundle created: ">> \o archive.path \o <<"\n">>
                   /\ rc' = <<0>>
                   /\ UNCHANGED stderr
    /\ cli_pc' = "exit"
    /\ UNCHANGED <<args, gui_vars, mobile_vars, tel_vars>>

\* main: the arguments are validated and rendered, and either the messages go to
\* stderr and 1 is returned, or the archive is written, its path printed and 0 returned
main ==
    /\ cli_pc = "start"
    /\ \E built \in {build_signatures(args)} :
           IF built.raised # <<>>
           THEN /\ stderr' = <<"Error:", "\n">> \o JoinMessages(built.raised) \o <<"\n">>
                /\ rc' = <<1>>
                /\ UNCHANGED <<stdout, cli_archive>>
           ELSE \E archive \in {write_zip(built.value.html, built.value.text, built.value.rtf,
                                          args.email, OutputDir)} :
                    /\ cli_archive' = <<archive>>
                    /\ stdout' = <<"Signature bundle created: ">> \o archive.path \o <<"\n">>
                    /\ rc' = <<0>>
                    /\ UNCHANGED stderr
    /\ cli_pc' = "exit"
    /\ UNCHANGED <<args, gui_vars, mobile_vars, tel_vars>>

showerror(title, message) == [kind |-> "showerror", title |-> title, message |-> message]
showinfo(title, message) == [kind |-> "showinfo", title |-> title, message |-> message]

\* a plausible slip: a record that fails validation also resets what was generated
on_generate_resetting ==
    /\ \E data \in {from_entries(entries)} : \E errors \in {validate(data)} :
           IF errors # <<>>
           THEN /\ messagebox' = <<showerror(<<"Ongeldige invoer">>, JoinMessages(errors))>>
                /\ payload' = <<>>
                /\ preview' = PlaceholderHtml
           ELSE \E p \in {generate(data)} :
                    /\ payload' = <<p>>
                    /\ preview' = p.preview_html
                    /\ UNCHANGED messagebox
    /\ UNCHANGED <<entries, gui_archive, cli_vars, mobile_vars, tel_vars>>

\* SignatureApp.on_generate
on_generate ==
    /\ \E data \in {from_entries(entries)} : \E errors \in {validate(data)} :
           IF errors # <<>>
           THEN /\ messagebox' = <<showerror(<<"Ongeldige invoer">>, JoinMessages(errors))>>
                /\ UNCHANGED <<payload, preview>>
           ELSE \E p \in {generate(data)} :
                    /\ payload' = <<p>>
                    /\ preview' = p.preview_html
                    /\ UNCHANGED messagebox
    /\ UNCHANGED <<entries, gui_archive, cli_vars, mobile_vars, tel_vars>>

\* what the save dialog of on_export can return: nothing (cancelled), the path it
\* proposes, or another path
DialogResults(base_name) == { <<>>, <<"~/">> \o base_name \o <<".zip">>, <<"/tmp/signature.zip">> }

\* a plausible slip: the result of the save dialog is not looked at
on_export_any_result ==
    IF payload = <<>>
    THEN /\ messagebox' = <<showinfo(<<"Geen handtekening">>,
                                     <<"Genereer eerst een handtekening voordat je exporteert.">>)>>
         /\ UNCHANGED <<entries, payload, preview, gui_archive, cli_vars, mobile_vars, tel_vars>>
    ELSE \E base_name \in {BaseName(sanitize_file_segment(payload[1].safe_email))} :
         \E file_path \in DialogResults(base_name) :
             /\ gui_archive' =
                    << [path |-> file_path,
                        entries |-> << [name |-> base_name \o <<".htm">>, data |-> payload[1].html],
                                       [name |-> base_name \o <<".txt">>, data |-> payload[1].txt],
                                       [name |-> base_name \o <<".rtf">>, data |-> payload[1].rtf],
                                       [name |-> base_name \o <<"_files/">>, data |-> <<>>] >>] >>
             /\ messagebox' = <<showinfo(<<"Export voltooid">>,
                                         <<"ZIP-bestand opgeslagen als:", "\n">> \o file_path)>>
             /\ UNCHANGED <<entries, payload, preview, cli_vars, mobile_vars, tel_vars>>

\* SignatureApp.on_export
on_export ==
    IF payload = <<>>
    THEN /\ messagebox' = <<showinfo(<<"Geen handtekening">>,
                                     <<"Genereer eerst een handtekening voordat je exporteert.">>)>>
         /\ UNCHANGED <<entries, payload, preview, gui_archive, cli_vars, mobile_vars, tel_vars>>
    ELSE \E base_name \in {BaseName(sanitize_file_segment(payload[1].safe_email))} :
         \E file_path \in DialogResults(base_name) :
             IF file_path = <<>> THEN UNCHANGED vars
             ELSE /\ gui_archive' =
                         << [path |-> file_path,
                             entries |-> << [name |-> base_name \o <<".htm">>, data |-> payload[1].html],
                                            [name |-> base_name \o <<".txt">>, data |-> payload[1].txt],
                                            [name |-> base_name \o <<".rtf">>, data |-> payload[1].rtf],
                                            [name |-> base_name \o <<"_files/">>, data |-> <<>>] >>] >>
                  /\ messagebox' = <<showinfo(<<"Export voltooid">>,
                                              <<"ZIP-bestand opgeslagen als:", "\n">> \o file_path)>>
                  /\ UNCHANGED <<entries, payload, preview, cli_vars, mobile_vars, tel_vars>>

Next == main \/ on_generate \/ on_export

Spec == Init /\ [][Next]_vars

SpecValidate == InitValidate /\ [][Next]_vars

(***************************************************************************)
(* The desktop front-end alone, from its construction on: the user edits   *)
(* the entries and clicks Generate, Export and Clear in any order.         *)
(***************************************************************************)
\* what the user types: two records that pass validation, one with a phone and with
\* characters every escaper rewrites, and one that fails it
GuiRecords ==
    { Record(DefaultName, DefaultTitle, DefaultEmail, DefaultMobile, <<>>),
      Record(<<"R", "&", "D", " ", "{", "x", "}">>, DefaultTitle, <<"o", "'", "b">> \o EMAIL_DOMAIN, <<"+", "4", "9", "(", "0", ")", " ", "1", "2", "3", "4", "5", "6", "7">>, <<"0", "1", "1", " ", "2", "2", " ", "3", "3">>),
      Record(DefaultName, DefaultTitle, <<"p", "e", "r", "s", "o", "n", "@", "e", "x", "a", "m", "p", "l", "e", ".", "c", "o", "m">>, <<"1", "2", "3">>, <<>>) }

\* SignatureApp.__init__: empty entries, no payload, the placeholder in the preview
InitGui ==
    /\ ProgramIdle
    /\ MobileIdle
    /\ TelIdle

\* the user edits the entry fields, which are bound to the five StringVars
edit_entries ==
    /\ \E r \in GuiRecords : entries' = r
    /\ UNCHANGED <<payload, preview, messagebox, gui_archive, cli_vars, mobile_vars, tel_vars>>

\* SignatureApp.on_clear
on_clear ==
    /\ entries' = NoRecord
    /\ payload' = <<>>
    /\ preview' = PlaceholderHtml
    /\ UNCHANGED <<messagebox, gui_archive, cli_vars, mobile_vars, tel_vars>>

NextGui == edit_entries \/ on_generate \/ on_export \/ on_clear

SpecGui == InitGui /\ [][NextGui]_vars


(***************************************************************************)
(* Claims about the validity predicate.                                    *)
(***************************************************************************)
\* variant is number with only spaces, hyphens and parentheses inserted
RECURSIVE IsDecorationOf(_, _)
IsDecorationOf(v, n) ==
    IF v = <<>> THEN n = <<>>
    ELSE \/ n # <<>> /\ Head(v) = Head(n) /\ IsDecorationOf(Tail(v), Tail(n))
         \/ Head(v) \in InsertedSeparators /\ IsDecorationOf(Tail(v), n)

AllDigits(s) == \A i \in 1..Len(s) : s[i] \in Digit

\* +32 followed by exactly nine digits
IsPlus32Nine(n) ==
    /\ Len(n) = 3 + InternationalDigits
    /\ StartsWith(n, PLUS32)
    /\ AllDigits(SubSeq(n, 4, Len(n)))

\* +49, optionally (0), optionally one space, then 7 to 13 digits up to the end,
\* after trimming and collapsing each whitespace run to one space
GermanShape(n) ==
    LET c == CollapseWhitespace(Strip(n))
    IN  \E p \in {<<>>, <<"(", "0", ")">>}, sp \in {<<>>, <<" ">>} :
            LET head == PLUS49 \o p \o sp
                ds == SubSeq(c, Len(head) + 1, Len(c))
            IN  /\ StartsWith(c, head)
                /\ Len(ds) >= GermanMinDigits
                /\ Len(ds) <= GermanMaxDigits
                /\ AllDigits(ds)

\* an accepted number that is not a German one was accepted by a Belgian rule
BelgianAccepted(ok, n) == ok /\ ~StartsWith(Strip(n), PLUS49)

\* C2: a number accepted by the Belgian national or international rule is still
\* accepted, by both copies of the predicate, with any spaces, hyphens or
\* parentheses inserted at any positions.
C2_SeparatorsInvariant ==
    /\ (cli_ok # <<>> /\ IsDecorationOf(variant, number) /\ BelgianAccepted(cli_ok[1], number))
           => cli_ok[2]
    /\ (gui_ok # <<>> /\ IsDecorationOf(variant, number) /\ BelgianAccepted(gui_ok[1], number))
           => gui_ok[2]

C2_Witness ==
    /\ cli_ok # <<>> /\ gui_ok # <<>>
    /\ number = <<"0", "4", "1", "2", "3", "4", "5", "6", "7", "8">>
    /\ variant = <<"0", "4", " ", "1", "2", "-", "3", "4", "5", "6", "7", "8">>
    /\ cli_ok = <<TRUE, TRUE>> /\ gui_ok = <<TRUE, TRUE>>

\* C3 as stated: every +32 followed by exactly nine digits is accepted, and so is
\* the same number with a single 0 inserted directly after +32.
C3_Original ==
    (cli_ok # <<>> /\ IsPlus32Nine(number) /\ variant = InsertAt(number, 3, "0"))
        => cli_ok[1] /\ cli_ok[2]

\* C3, amended: +32 followed by exactly nine digits is accepted when the first of
\* the nine digits is not 0 and rejected when it is 0 (the leading +320 is normalized
\* to +32, which leaves eight digits); the number with a single 0 inserted directly
\* after +32 is accepted whatever the nine digits are.
C3_Plus32Accepted ==
    (cli_ok # <<>> /\ IsPlus32Nine(number) /\ variant = InsertAt(number, 3, "0"))
        => /\ cli_ok[1] = (number[4] # "0")
           /\ cli_ok[2]

C3_Witness ==
    /\ cli_ok # <<>>
    /\ IsPlus32Nine(number) /\ number[4] = "4"
    /\ variant = InsertAt(number, 3, "0")
    /\ cli_ok = <<TRUE, TRUE>>

\* C4: a number beginning with +49 is accepted exactly when, trimmed and with each
\* whitespace run collapsed to one space, it is +49, optionally (0), optionally one
\* space, then 7 to 13 digits up to the end.
C4_GermanExactly ==
    /\ (cli_ok # <<>> /\ StartsWith(number, PLUS49)) => (cli_ok[1] <=> GermanShape(number))
    /\ (gui_ok # <<>> /\ StartsWith(number, PLUS49)) => (gui_ok[1] <=> GermanShape(number))

C4_Witness ==
    /\ cli_ok # <<>>
    /\ number = PLUS49 \o <<"(", "0", ")", " ">> \o DigitRun(GermanMinDigits)
    /\ cli_ok[1]

\* a German number with 14 trailing digits, and one with a hyphen, are reached and rejected
C4_WitnessRejected ==
    /\ cli_ok # <<>>
    /\ number = PLUS49 \o DigitRun(GermanMaxDigits + 1)
    /\ ~cli_ok[1]

(***************************************************************************)
(* Claims about the telephone sanitizer.                                   *)
(***************************************************************************)
\* the sanitizer as described: separators removed, +320 and +490 shortened only at the
\* very start, then everything but + and the digits dropped
TelDescribed(v) ==
    LET bare == SelectSeq(v, LAMBDA c : c \notin Whitespace \cup {"(", ")", "-"})
        rest == SubSeq(bare, 5, Len(bare))
        head == IF Len(bare) >= 4 THEN SubSeq(bare, 1, 4) ELSE <<>>
        short == IF head = <<"+", "3", "2", "0">> THEN <<"+", "3", "2">> \o rest
                 ELSE IF head = <<"+", "4", "9", "0">> THEN <<"+", "4", "9">> \o rest
                 ELSE bare
    IN  SelectSeq(short, LAMBDA c : c \in TelChars)

\* C9: in both front-ends the telephone sanitizer removes whitespace, parentheses and
\* hyphens, shortens +320 to +32 and +490 to +49 only at the very start of the
\* string, then drops every character that is not + or a digit.
C9_TelAsDescribed ==
    /\ tel_cli # <<>> => tel_cli[1] = TelDescribed(value)
    /\ tel_gui # <<>> => tel_gui[1] = TelDescribed(value)

\* the command-line copy alone does what C9 describes
C9_CliAsDescribed == tel_cli # <<>> => tel_cli[1] = TelDescribed(value)

\* the result of either copy holds only + and digits
C9_OnlyTelChars ==
    /\ tel_cli # <<>> => \A i \in 1..Len(tel_cli[1]) : tel_cli[1][i] \in TelChars
    /\ tel_gui # <<>> => \A i \in 1..Len(tel_gui[1]) : tel_gui[1][i] \in TelChars

(***************************************************************************)
(* Claims about the program.                                               *)
(***************************************************************************)
\* the bodies the command-line front-end wrote, and those the desktop front-end holds
CliWritten == cli_archive # <<>>
CliHtml == cli_archive[1].entries[1].data
CliText == cli_archive[1].entries[2].data
CliRtf == cli_archive[1].entries[3].data
GuiGenerated == payload # <<>>

IsBlankText(s) == \A i \in 1..Len(s) : s[i] \in Whitespace

\* the part of s between the first atom open and the next atom close
Between(s, open, close) ==
    LET i == CHOOSE k \in 1..Len(s) : s[k] = open /\ \A j \in 1..(k - 1) : s[j] # open
        j == CHOOSE k \in (i + 1)..Len(s) : s[k] = close /\ \A l \in (i + 1)..(k - 1) : s[l] # close
    IN  SubSeq(s, i + 1, j - 1)

Last(s) == s[Len(s)]

(***************************************************************************)
(* C1                                                                      *)
(***************************************************************************)
\* the three shapes of a valid mobile number, on the trimmed text
MobileWellFormed(m) ==
    LET bare == RemoveChars(m, Separators)
    IN  \/ Len(bare) = 2 + NationalDigits /\ StartsWith(bare, <<"0", "4">>) /\ AllDigits(bare)
        \/ IsPlus32Nine(bare) /\ bare[4] # "0"
        \/ /\ Len(bare) = 4 + InternationalDigits
           /\ StartsWith(bare, <<"+", "3", "2", "0">>)
           /\ AllDigits(SubSeq(bare, 5, Len(bare)))
        \/ GermanShape(m)

OnDomain(e) == EndsWith(LowerCase(Strip(e)), EMAIL_DOMAIN)

\* the rules a record violates, in the order name, title, email, mobile
ViolatedRules(r) ==
    (IF IsBlankText(r.name) THEN <<"name">> ELSE <<>>)
    \o (IF IsBlankText(r.title) THEN <<"title">> ELSE <<>>)
    \o (IF IsBlankText(r.email) \/ ~OnDomain(r.email) THEN <<"email">> ELSE <<>>)
    \o (IF IsBlankText(r.mobile) \/ ~MobileWellFormed(Strip(r.mobile)) THEN <<"mobile">> ELSE <<>>)

\* the rule a message is about, and whether the message fits the way the rule is violated
RuleOf(msg) ==
    CASE msg \in {NameRequired, NaamVerplicht} -> "name"
      [] msg \in {TitleRequired, FunctieVerplicht} -> "title"
      [] msg \in {EmailRequired, EmailDomain, EmailVerplicht} -> "email"
      [] msg \in {MobileRequired, MobileFormat, MobielVerplicht} -> "mobile"
      [] OTHER -> "none"

Fits(msg, r) ==
    /\ msg = EmailRequired => IsBlankText(r.email)
    /\ msg = EmailDomain => ~IsBlankText(r.email)
    /\ msg = MobileRequired => IsBlankText(r.mobile)
    /\ msg = MobileFormat => ~IsBlankText(r.mobile)

\* the messages of a text that holds one message per line
MessagesOf(text) == SelectSeq(text, LAMBDA a : a # "\n" /\ a # "Error:")

ReportsExactly(msgs, r) ==
    /\ [k \in 1..Len(msgs) |-> RuleOf(msgs[k])] = ViolatedRules(r)
    /\ \A k \in 1..Len(msgs) : Fits(msgs[k], r)

\* C1: validation reports exactly one message per violated rule among name, title,
\* email and mobile, in that order and all together; email gives either the required
\* or the domain message and mobile either the required or the format message; the
\* phone never gives one; the record is accepted exactly when no rule is violated.
C1_OneMessagePerRule ==
    /\ cli_pc = "exit" =>
           /\ ReportsExactly(MessagesOf(stderr), args)
           /\ CliWritten <=> ViolatedRules(args) = <<>>
           /\ rc = <<0>> <=> ViolatedRules(args) = <<>>
    /\ (messagebox # <<>> /\ messagebox[1].kind = "showerror") =>
           /\ ReportsExactly(MessagesOf(messagebox[1].message), entries)
           /\ ViolatedRules(entries) # <<>>
    /\ GuiGenerated => ViolatedRules(entries) = <<>>

\* name, title and mobile are all missing, with a phone that is no number: three
\* messages together in both front-ends
C1_Witness ==
    /\ cli_pc = "exit"
    /\ args.phone = <<"a", "b", "c">>
    /\ MessagesOf(stderr) = <<NameRequired, TitleRequired, MobileRequired>>
    /\ rc = <<1>>
    /\ messagebox # <<>>
    /\ MessagesOf(messagebox[1].message) = <<NaamVerplicht, FunctieVerplicht, MobielVerplicht>>

\* an email off the domain is rejected with the domain message alone
C1_WitnessDomain ==
    /\ cli_pc = "exit"
    /\ args.email = <<"p", "e", "r", "s", "o", "n", "@", "e", "x", "a", "m", "p", "l", "e", ".", "c", "o", "m">>
    /\ MessagesOf(stderr) = <<EmailDomain>>

\* a record that violates no rule is accepted by both front-ends
C1_WitnessAccepted ==
    /\ cli_pc = "exit" /\ rc = <<0>> /\ CliWritten /\ GuiGenerated
    /\ args.phone = <<"a", "b", "c">>

(***************************************************************************)
(* C5                                                                      *)
(***************************************************************************)
Entities == { <<"&", "a", "m", "p", ";">>, <<"&", "l", "t", ";">>, <<"&", "g", "t", ";">>, <<"&", "q", "u", "o", "t", ";">>, <<"&", "#", "x", "2", "7", ";">> }

EntityAt(h, i) == \E e \in Entities : SubSeq(h, i, Min(i + Len(e) - 1, Len(h))) = e

\* no character of h outside the template's own markup is a live <, >, " or ', and
\* every such & starts an entity
NoLiveMarkup(h) ==
    \A i \in 1..Len(h) :
        Len(h[i]) = 1 => /\ h[i] \notin {"<", ">", "\"", "'"}
                         /\ h[i] = "&" => EntityAt(h, i)

\* the text a browser shows for s; "?" stands for a character that is live markup
RECURSIVE HtmlUnescape(_, _)
HtmlUnescape(s, i) ==
    IF i > Len(s) THEN <<>>
    ELSE IF s[i] = "&" /\ EntityAt(s, i)
    THEN LET e == CHOOSE x \in Entities : SubSeq(s, i, Min(i + Len(x) - 1, Len(s))) = x
             c == CASE e[2] = "a" -> "&" [] e[2] = "l" -> "<" [] e[2] = "g" -> ">"
                    [] e[2] = "q" -> "\"" [] OTHER -> "'"
         IN  <<c>> \o HtmlUnescape(s, i + Len(e))
    ELSE IF s[i] \in {"&", "<", ">", "\"", "'"} THEN <<"?">> \o HtmlUnescape(s, i + 1)
    ELSE <<s[i]>> \o HtmlUnescape(s, i + 1)

CliHtmlName == Between(CliHtml, Last(html_signature_fstring_1), html_signature_fstring_2[1])
GuiHtmlName ==
    Between(payload[1].html, Last(gui_html_signature_fstring_1), gui_html_signature_fstring_2[1])

\* C5: in the HTML body of an accepted record no &, <, >, " or ' of a user field is
\* left unescaped, in text and in href values alike, and the name shows as typed.
C5_HtmlEscaped ==
    /\ CliWritten => /\ NoLiveMarkup(CliHtml)
                     /\ HtmlUnescape(CliHtmlName, 1) = Strip(args.name)
    /\ GuiGenerated => /\ NoLiveMarkup(payload[1].html)
                       /\ HtmlUnescape(GuiHtmlName, 1) = Strip(entries.name)

\* the name <script> is in both HTML bodies as &lt;script&gt;
C5_Witness ==
    /\ CliWritten /\ GuiGenerated
    /\ args.name = <<"<", "s", "c", "r", "i", "p", "t", ">">>
    /\ CliHtmlName = <<"&", "l", "t", ";", "s", "c", "r", "i", "p", "t", "&", "g", "t", ";">>
    /\ GuiHtmlName = <<"&", "l", "t", ";", "s", "c", "r", "i", "p", "t", "&", "g", "t", ";">>

\* a phone and an email with markup characters went into the contact block
C5_WitnessContact ==
    /\ CliWritten /\ GuiGenerated
    /\ args.phone = <<"<", "b", ">", "&">>
    /\ args.email = <<"o", "'", "b">> \o EMAIL_DOMAIN

(***************************************************************************)
(* C6                                                                      *)
(***************************************************************************)
HtmlLabels ==
    <<contact_info_html_mobile_1[Len(contact_info_html_mobile_1)],
      contact_info_html_phone_1[Len(contact_info_html_phone_1)],
      contact_info_html_email_1[Len(contact_info_html_email_1)]>>

TextLabels == <<"Mobile: ", "Phone: ", "E-mail: ">>

\* the labels a record with this phone calls for
Expected(labels, phone) ==
    IF IsBlankText(phone) THEN <<labels[1], labels[3]>> ELSE labels

LabelsIn(body, labels) ==
    SelectSeq(body, LAMBDA a : a = labels[1] \/ a = labels[2] \/ a = labels[3])

\* position i of a text is the first of its line that is not a blank
RECURSIVE AtLineStart(_, _)
AtLineStart(s, i) ==
    IF i = 1 \/ s[i - 1] = "\n" THEN TRUE
    ELSE IF s[i - 1] \in Blank THEN AtLineStart(s, i - 1)
    ELSE FALSE

\* the number of backslashes that end at position i
RECURSIVE BackslashRun(_, _)
BackslashRun(s, i) == IF i >= 1 /\ s[i] = "\\" THEN 1 + BackslashRun(s, i - 1) ELSE 0

LineControlWord == <<"\\", "l", "i", "n", "e", " ">>

\* position i of an RTF body comes right after a \line control word, one whose
\* backslash is not itself escaped by a backslash before it
AfterRtfLineBreak(s, i) ==
    /\ i > Len(LineControlWord)
    /\ SubSeq(s, i - Len(LineControlWord), i - 1) = LineControlWord
    /\ BackslashRun(s, i - Len(LineControlWord) - 1) % 2 = 0

HtmlLines(h, phone) == LabelsIn(h, HtmlLabels) = Expected(HtmlLabels, phone)

TextLines(t, phone) ==
    /\ LabelsIn(t, TextLabels) = Expected(TextLabels, phone)
    /\ \A i \in 1..Len(t) : (t[i] = "Phone: " \/ t[i] = "E-mail: ") => AtLineStart(t, i)

RtfLines(r, phone) ==
    /\ LabelsIn(r, TextLabels) = Expected(TextLabels, phone)
    /\ \A i \in 1..Len(r) : (r[i] = "Phone: " \/ r[i] = "E-mail: ") => AfterRtfLineBreak(r, i)

\* C6: in each of HTML, plain text and RTF the contact block is two separate lines,
\* Mobile then E-mail, when the phone is empty or blank, and three, Mobile then Phone
\* then E-mail, otherwise; in RTF a line-break control word separates the lines.
C6_ContactLines ==
    /\ CliWritten => /\ HtmlLines(CliHtml, args.phone)
                     /\ TextLines(CliText, args.phone)
                     /\ RtfLines(CliRtf, args.phone)
    /\ GuiGenerated => /\ HtmlLines(payload[1].html, entries.phone)
                       /\ TextLines(payload[1].txt, entries.phone)
                       /\ RtfLines(payload[1].rtf, entries.phone)

\* what holds of C6: the lines of the HTML and of the plain text, and the labels of
\* the RTF in their order
C6_HtmlTextLines ==
    /\ CliWritten => /\ HtmlLines(CliHtml, args.phone)
                     /\ TextLines(CliText, args.phone)
                     /\ LabelsIn(CliRtf, TextLabels) = Expected(TextLabels, args.phone)
    /\ GuiGenerated => /\ HtmlLines(payload[1].html, entries.phone)
                       /\ TextLines(payload[1].txt, entries.phone)
                       /\ LabelsIn(payload[1].rtf, TextLabels) = Expected(TextLabels, entries.phone)

\* in the RTF of either front-end no label of the contact block follows a line break
C6_RtfNeverBroken ==
    /\ CliWritten => \A i \in 1..Len(CliRtf) :
                         CliRtf[i] \in {"Phone: ", "E-mail: "} => ~AfterRtfLineBreak(CliRtf, i)
    /\ GuiGenerated => \A i \in 1..Len(payload[1].rtf) :
                           payload[1].rtf[i] \in {"Phone: ", "E-mail: "}
                               => ~AfterRtfLineBreak(payload[1].rtf, i)

(***************************************************************************)
(* C7                                                                      *)
(***************************************************************************)
\* the text an RTF reader shows for s; "?" stands for a backslash or a brace that is
\* not escaped by exactly one backslash
RECURSIVE RtfUnescape(_, _)
RtfUnescape(s, i) ==
    IF i > Len(s) THEN <<>>
    ELSE IF s[i] = "\\" /\ i < Len(s) /\ s[i + 1] \in {"\\", "{", "}"}
    THEN <<s[i + 1]>> \o RtfUnescape(s, i + 2)
    ELSE IF s[i] \in {"\\", "{", "}"} THEN <<"?">> \o RtfUnescape(s, i + 1)
    ELSE <<s[i]>> \o RtfUnescape(s, i + 1)

CliRtfName == Between(CliRtf, Last(rtf_signature_fstring_1), rtf_signature_fstring_2[1])
CliRtfTitle == LStrip(Between(CliRtf, rtf_signature_fstring_2[1], rtf_signature_fstring_3[1]))
GuiRtfName ==
    Between(payload[1].rtf, Last(gui_rtf_signature_fstring_1), gui_rtf_signature_fstring_2[1])
GuiRtfTitle ==
    LStrip(Between(payload[1].rtf, gui_rtf_signature_fstring_2[1], gui_rtf_signature_fstring_3[1]))

\* C7: in the RTF body every backslash, { and } of the name and of the title is
\* preceded by exactly one escaping backslash and nothing is escaped twice:
\* unescaping gives back the text.
C7_RtfEscaped ==
    /\ CliWritten => /\ RtfUnescape(CliRtfName, 1) = Strip(args.name)
                     /\ RtfUnescape(CliRtfTitle, 1) = Strip(args.title)
    /\ GuiGenerated => /\ RtfUnescape(GuiRtfName, 1) = Strip(entries.name)
                       /\ RtfUnescape(GuiRtfTitle, 1) = Strip(entries.title)

\* a name of a backslash and a brace is \\ \{ in both RTF bodies
C7_Witness ==
    /\ CliWritten /\ GuiGenerated
    /\ args.name = <<"\\", "{">>
    /\ CliRtfName = <<"\\", "\\", "\\", "{">>
    /\ GuiRtfName = <<"\\", "\\", "\\", "{">>

\* and so is a title with a closing brace
C7_WitnessTitle ==
    /\ CliWritten /\ GuiGenerated
    /\ args.title = <<"}", "\\">>
    /\ CliRtfTitle = <<"\\", "}", "\\", "\\">>

(***************************************************************************)
(* C8                                                                      *)
(***************************************************************************)
\* the trimmed email with every character outside [A-Za-z0-9@._+-] made an underscore
SegmentOf(email) ==
    LET t == Strip(email)
    IN  [i \in 1..Len(t) |-> IF t[i] \in FileSegmentChars THEN t[i] ELSE "_"]

\* the four entries B.htm, B.txt, B.rtf and the empty B_files/
FourEntries(archive, email) ==
    LET B == <<"AtlasCopco(">> \o SegmentOf(email) \o <<")">>
    IN  /\ [k \in 1..Len(archive.entries) |-> archive.entries[k].name]
               = <<B \o <<".htm">>, B \o <<".txt">>, B \o <<".rtf">>, B \o <<"_files/">>>>
        /\ archive.entries[4].data = <<>>

\* C8: the archive either front-end writes holds exactly the four entries B.htm,
\* B.txt, B.rtf and the empty B_files/, B being AtlasCopco(<s>) with s the trimmed
\* email, every character outside [A-Za-z0-9@._+-] replaced by one underscore.
C8_FourEntries ==
    /\ CliWritten => FourEntries(cli_archive[1], args.email)
    /\ gui_archive # <<>> => FourEntries(gui_archive[1], entries.email)

\* the archive of the command-line front-end alone is as C8 describes
C8_CliFourEntries == CliWritten => FourEntries(cli_archive[1], args.email)

\* the desktop front-end names four entries after one base and leaves the last empty
C8_GuiFourNames ==
    gui_archive # <<>> =>
        \E B \in {SubSeq(gui_archive[1].entries[1].name, 1, Len(gui_archive[1].entries[1].name) - 1)} :
            /\ [k \in 1..Len(gui_archive[1].entries) |-> gui_archive[1].entries[k].name]
                   = <<B \o <<".htm">>, B \o <<".txt">>, B \o <<".rtf">>, B \o <<"_files/">>>>
            /\ gui_archive[1].entries[4].data = <<>>

(***************************************************************************)
(* C10                                                                     *)
(***************************************************************************)
EndsWithNewline(s) == s # <<>> /\ Last(s) = "\n"

\* C10: for an accepted record build_signatures and SignatureData.generate give the same
\* html, the same text and the same rtf, and the text ends with a newline in both.
C10_SameBodies ==
    (CliWritten /\ GuiGenerated /\ entries = args) =>
        /\ CliHtml = payload[1].html
        /\ CliText = payload[1].txt
        /\ CliRtf = payload[1].rtf
        /\ EndsWithNewline(CliText)
        /\ EndsWithNewline(payload[1].txt)

\* the text of the command-line front-end ends with a newline
C10_CliTextNewline == CliWritten => EndsWithNewline(CliText)

\* the text of the desktop front-end never does
C10_GuiTextNoNewline == GuiGenerated => ~EndsWithNewline(payload[1].txt)

(***************************************************************************)
(* C11                                                                     *)
(***************************************************************************)
\* C11: in every run of main, a record that fails validation gives a non-zero status
\* and no archive, the writer not being called; a record that passes gives exactly
\* one archive and the status zero.
C11_ArchiveIffValid ==
    /\ cli_pc = "start" => rc = <<>> /\ cli_archive = <<>>
    /\ cli_pc = "exit" =>
           IF ViolatedRules(args) # <<>>
           THEN /\ Len(rc) = 1 /\ rc[1] # 0
                /\ cli_archive = <<>>
                /\ stdout = <<>>
           ELSE /\ rc = <<0>>
                /\ Len(cli_archive) = 1
                /\ stdout = <<"Signature bundle created: ">> \o cli_archive[1].path \o <<"\n">>
                /\ stderr = <<>>

\* main has returned 1 for an email off the domain and a mobile that is no number,
\* with both messages on stderr and no archive
C11_Witness ==
    /\ cli_pc = "exit"
    /\ args.name = DefaultName /\ args.title = DefaultTitle
    /\ args.email = <<"p", "e", "r", "s", "o", "n", "@", "e", "x", "a", "m", "p", "l", "e", ".", "c", "o", "m">>
    /\ args.mobile = <<"1", "2", "3">>
    /\ rc = <<1>>
    /\ cli_archive = <<>>
    /\ MessagesOf(stderr) = <<EmailDomain, MobileFormat>>

\* main has returned 0 for the default record and written one archive of four entries
C11_WitnessWritten ==
    /\ cli_pc = "exit"
    /\ args = Record(DefaultName, DefaultTitle, DefaultEmail, DefaultMobile, <<>>)
    /\ rc = <<0>>
    /\ Len(cli_archive) = 1 /\ Len(cli_archive[1].entries) = 4

(***************************************************************************)
(* C12                                                                     *)
(***************************************************************************)
NoPayloadDialog ==
    showinfo(<<"Geen handtekening">>, <<"Genereer eerst een handtekening voordat je exporteert.">>)

\* the archive changes in this step
ArchiveWritten == gui_archive' # gui_archive

\* C12: over any sequence of edits, Generate, Export and Clear, the archive is written
\* only in a step that starts with a payload held, at the path the dialog returned
\* and with the bodies of that payload; an Export that writes nothing (no payload
\* held, or the dialog cancelled) leaves the entries and the payload as they are and
\* shows no error dialog.
C12_ExportWrites ==
    [][ /\ ArchiveWritten =>
               /\ on_export
               /\ payload # <<>>
               /\ Len(gui_archive') = 1
               /\ gui_archive'[1].path # <<>>
               /\ gui_archive'[1].entries[1].data = payload[1].html
               /\ gui_archive'[1].entries[2].data = payload[1].txt
               /\ gui_archive'[1].entries[3].data = payload[1].rtf
        /\ (on_export /\ ~ArchiveWritten) =>
               /\ entries' = entries
               /\ payload' = payload
               /\ preview' = preview
               /\ messagebox' # messagebox => messagebox'[1].kind = "showinfo"
        /\ (on_export /\ payload = <<>>) => ~ArchiveWritten /\ messagebox' = <<NoPayloadDialog>>
      ]_vars

\* Export was clicked with entries filled in and nothing generated: the dialog says
\* so, nothing is written, and the entries are as typed
C12_Witness ==
    /\ messagebox = <<NoPayloadDialog>>
    /\ payload = <<>>
    /\ gui_archive = <<>>
    /\ entries = Record(DefaultName, DefaultTitle, DefaultEmail, DefaultMobile, <<>>)

\* an archive was written and the form cleared afterwards
C12_WitnessWritten ==
    /\ gui_archive # <<>>
    /\ gui_archive[1].path = <<"/tmp/signature.zip">>
    /\ messagebox # <<>> /\ messagebox[1].title = <<"Export voltooid">>
    /\ payload = <<>>
    /\ entries = NoRecord

(***************************************************************************)
(* C13                                                                     *)
(***************************************************************************)
\* C13: the two copies of the mobile validity predicate agree on every number: the
\* one that shortens +320 only at the start of the cleaned text and the one that
\* shortens every +320 accept the same numbers.
C13_CopiesAgree == (cli_ok # <<>> /\ gui_ok # <<>>) => cli_ok = gui_ok

\* a number with +320 twice, which the two copies normalize differently, is
\* rejected by both
C13_Witness ==
    /\ number = <<"+", "3", "2", "0", "+", "3", "2", "0", "4", "1", "2", "3", "4", "5", "6", "7", "8">>
    /\ SubLeading(number, <<"+", "3", "2", "0">>, <<"+", "3", "2">>) # Replace(number, <<"+", "3", "2", "0">>, <<"+", "3", "2">>)
    /\ cli_ok = <<FALSE, FALSE>>
    /\ gui_ok = <<FALSE, FALSE>>

\* a number with one leading +320 and separators is accepted by both
C13_WitnessAccepted ==
    /\ number = <<"+", "3", "2", "0", " ", "4", "1", "2", "3", "4", "5", "6", "7", "8">>
    /\ cli_ok = <<TRUE, TRUE>>
    /\ gui_ok = <<TRUE, TRUE>>

(***************************************************************************)
(* C14                                                                     *)
(***************************************************************************)
PassesValidation(r) == ViolatedRules(r) = <<>>

\* the payload Generate makes of the entries r
RenderingOf(r) == generate(from_entries(r))

\* the payload held, and the archive written, are renderings of a record the user
\* typed and that passes validation; the preview shows the payload held
HeldFromValid ==
    /\ payload # <<>> =>
           /\ \E r \in GuiRecords : PassesValidation(r) /\ payload[1] = RenderingOf(r)
           /\ preview = payload[1].preview_html
    /\ payload = <<>> => preview = PlaceholderHtml
    /\ gui_archive # <<>> =>
           \E r \in GuiRecords :
               /\ PassesValidation(r)
               /\ gui_archive[1].entries[1].data = RenderingOf(r).html
               /\ gui_archive[1].entries[2].data = RenderingOf(r).txt
               /\ gui_archive[1].entries[3].data = RenderingOf(r).rtf

\* the two ways the payload changes, and what a Generate that fails and an Export do
PayloadSteps ==
    /\ payload' # payload =>
           \/ /\ on_generate
              /\ PassesValidation(entries)
              /\ payload' = <<RenderingOf(entries)>>
              /\ preview' = payload'[1].preview_html
           \/ /\ on_clear
              /\ payload' = <<>>
              /\ entries' = NoRecord
              /\ preview' = PlaceholderHtml
    /\ (on_generate /\ ~PassesValidation(entries)) =>
           /\ payload' = payload
           /\ preview' = preview
           /\ messagebox' # <<>> /\ messagebox'[1].kind = "showerror"
    /\ (on_generate /\ PassesValidation(entries)) => payload' = <<RenderingOf(entries)>>
    /\ on_clear => payload' = <<>> /\ entries' = NoRecord
    /\ gui_archive' # gui_archive =>
           /\ payload # <<>>
           /\ gui_archive'[1].entries[1].data = payload[1].html
           /\ gui_archive'[1].entries[2].data = payload[1].txt
           /\ gui_archive'[1].entries[3].data = payload[1].rtf

\* C14: the payload is none initially and changes only when a Generate whose record
\* passes validation sets it to the rendering of the entries, or when a Clear sets it
\* to none and empties the five entries; a Generate whose record fails validation
\* leaves the payload and the preview as they are; so every payload held was rendered
\* from a record that passed validation, and an Export writes the payload of the
\* last Generate that succeeded.
C14_PayloadLifecycle == payload = <<>> /\ []HeldFromValid /\ [][PayloadSteps]_vars

\* the payload of the default record is still held, and shown, after the entries
\* were changed to a record that fails validation and Generate was clicked
C14_Witness ==
    /\ entries = Record(DefaultName, DefaultTitle, <<"p", "e", "r", "s", "o", "n", "@", "e", "x", "a", "m", "p", "l", "e", ".", "c", "o", "m">>, <<"1", "2", "3">>, <<>>)
    /\ messagebox # <<>> /\ messagebox[1].kind = "showerror"
    /\ MessagesOf(messagebox[1].message) = <<EmailVerplicht, MobielVerplicht>>
    /\ payload = <<RenderingOf(Record(DefaultName, DefaultTitle, DefaultEmail, DefaultMobile, <<>>))>>
    /\ preview = payload[1].preview_html

\* after a Clear nothing is held, the entries are empty, and an archive written
\* before is still that of a record that passed validation
C14_WitnessCleared ==
    /\ entries = NoRecord /\ payload = <<>> /\ preview = PlaceholderHtml
    /\ gui_archive # <<>>
    /\ gui_archive[1].entries[2].data =
           RenderingOf(Record(DefaultName, DefaultTitle, DefaultEmail, DefaultMobile, <<>>)).txt

(***************************************************************************)
(* C15                                                                     *)
(***************************************************************************)
HasLineBreak(s) == \E i \in 1..Len(s) : s[i] = "\n"

NoLineBreaks(r) ==
    ~(HasLineBreak(r.name) \/ HasLineBreak(r.title) \/ HasLineBreak(r.email)
          \/ HasLineBreak(r.mobile) \/ HasLineBreak(r.phone))

\* the positions of t at which a line begins with a blank
IndentedLines(t) == { i \in 1..Len(t) : (i = 1 \/ t[i - 1] = "\n") /\ t[i] \in Blank }

\* the number of blanks the line at position i begins with
RECURSIVE IndentAt(_, _)
IndentAt(t, i) == IF i <= Len(t) /\ t[i] \in Blank THEN 1 + IndentAt(t, i + 1) ELSE 0

\* C15: for an accepted record whose fields hold no line break, the indentation of
\* the template in the source is removed from every line of the plain-text body: no
\* line of it begins with whitespace, with or without the phone line.
C15_TextDedented ==
    /\ (CliWritten /\ NoLineBreaks(args)) => IndentedLines(CliText) = {}
    /\ (GuiGenerated /\ NoLineBreaks(entries)) => IndentedLines(payload[1].txt) = {}

\* what holds instead: every plain-text body has lines that begin with blanks, and
\* each of them begins with the indentation of the source, 8 blanks on the command
\* line and 12 on the desktop
C15_IndentKept ==
    /\ (CliWritten /\ NoLineBreaks(args)) =>
           /\ IndentedLines(CliText) # {}
           /\ \A i \in IndentedLines(CliText) : IndentAt(CliText, i) = 8
    /\ (GuiGenerated /\ NoLineBreaks(entries)) =>
           /\ IndentedLines(payload[1].txt) # {}
           /\ \A i \in IndentedLines(payload[1].txt) : IndentAt(payload[1].txt, i) = 12

====
